---- MODULE Spec2Model ----
(***************************************************************************)
(* hl7view: normalization and parsing of HL7 v2 text (parser.py), field    *)
(* mutation and line regeneration, and the field-level diff (diff.py).     *)
(*                                                                         *)
(* A text is a sequence of characters; a character is a one-character      *)
(* string, except the two transport framing bytes, which are the tokens    *)
(* VT and FS below.  Python's None is the empty set and a present value x  *)
(* is the singleton {x}.                                                   *)
(***************************************************************************)
EXTENDS Integers, Sequences, FiniteSets, TLC

VARIABLES
    raw,      \* the text handed to parse_hl7
    msg,      \* the tree parse_hl7 returned (None: absent), edited in place afterwards
    orig,     \* a deep copy of the tree as parse_hl7 returned it
    phase,    \* "input", "parsed", "absent", "diffed" or "failed" (a call raised)
    last,     \* the last operation and its arguments
    left,     \* first argument of the last diff_messages call
    right,    \* second argument of the last diff_messages call
    report,   \* the MessageDiff it returned
    token,    \* the version token handed to resolve_version (None: no token)
    generation,  \* what resolve_version returned (None: not called yet)
    heap,     \* the dict objects of the schema tables, by object identity
    tables,   \* HL7_V23, HL7_V25, HL7_V28: the object each name is bound to
    load,     \* how far the module body of definitions.py has run
    op,       \* the last statement applied to a table, and the table
    live,     \* number of statements applied to the tables after loading
    calls,    \* the frames of the parse_hl7 calls in progress, by call
    counters, \* the segment_counts dict of each call
    store,    \* the objects of the trees handed to and returned by anonymize_message
    given,    \* the tree object handed to anonymize_message (None: no tree)
    anon,     \* the tree object it returned (None: not called yet)
    snapshot, \* what the tree handed over read as before the call
    input,    \* the text handed to normalize_message and parse_hl7
    normalized, \* the list normalize_message returned (None: not called yet)
    wire,     \* what reconstruct_message returned for the parsed text (None: not called yet)
    message,  \* the message text handed to the tools
    changes,  \* the address-to-value dict handed to hl7_transform, in insertion order
    transformed, \* the tree, errors and result of hl7_transform (None: not called yet)
    answer    \* the address looked up and what format_field_value and hl7_get_field returned (None: not called yet)

\* the variables of a parse/edit/diff session
session == <<raw, msg, orig, phase, last, left, right, report>>

\* the variables of a version resolution
resolution == <<token, generation>>

\* the variables of the schema tables
schema == <<heap, tables, load, op, live>>

\* the variables of parse_hl7 calls that run step by step
invocations == <<calls, counters>>

\* the variables of an anonymization
anonymization == <<store, given, anon, snapshot>>

\* the variables of a normalization and wire reconstruction
wiring == <<input, normalized, wire>>

\* the variables of the tools that address a field: hl7_transform, hl7_get_field, format_field_value
tooling == <<message, changes, transformed, answer>>

\* what a session leaves alone
outside_session == <<resolution, schema, invocations, anonymization, wiring, tooling>>

\* what a version resolution leaves alone
outside_resolution == <<session, schema, invocations, anonymization, wiring, tooling>>

\* what the statements on the schema tables leave alone
outside_schema == <<session, resolution, invocations, anonymization, wiring, tooling>>

\* what the step-by-step calls leave alone
outside_invocations == <<session, resolution, schema, anonymization, wiring, tooling>>

\* what an anonymization leaves alone
outside_anonymization == <<session, resolution, schema, invocations, wiring, tooling>>

\* what a normalization leaves alone
outside_wiring == <<session, resolution, schema, invocations, anonymization, tooling>>

\* what the tools leave alone
outside_tooling == <<session, resolution, schema, invocations, anonymization, wiring>>

vars == <<session, resolution, schema, invocations, anonymization, wiring, tooling>>

None == {}
Some(x) == {x}
The(S) == CHOOSE x \in S : TRUE

(***************************************************************************)
(* Characters                                                              *)
(***************************************************************************)
CR == "\r"
LF == "\n"
VT == "0x0B"
FS == "0x1C"
PIPE == "|"
CARET == "^"
TILDE == "~"
AMP == "&"

UpperLetters ==
    {"A","B","C","D","E","F","G","H","I","J","K","L","M",
     "N","O","P","Q","R","S","T","U","V","W","X","Y","Z"}

DigitChars == <<"0","1","2","3","4","5","6","7","8","9">>

Digits == {DigitChars[i] : i \in 1..10}

\* str.strip() with no argument removes Unicode white space, which includes
\* the control bytes 0x0B and 0x1C.
WhiteSpace == {" ", "\t", LF, CR, "\f", VT, FS}

\* re.IGNORECASE on the letters of the placeholder tokens
ToUpper(c) ==
    CASE c = "v" -> "V" [] c = "t" -> "T" [] c = "s" -> "S" [] c = "b" -> "B"
      [] c = "f" -> "F" [] c = "e" -> "E" [] c = "c" -> "C" [] c = "r" -> "R"
      [] OTHER -> c

(***************************************************************************)
(* Python string primitives                                                *)
(***************************************************************************)
Contains(s, c) == \E i \in 1..Len(s) : s[i] = c

FirstIndex(s, c) == CHOOSE i \in 1..Len(s) : s[i] = c /\ \A j \in 1..(i-1) : s[j] # c

Tail_(s, i) == SubSeq(s, i, Len(s))

StartsWith(s, p) == Len(s) >= Len(p) /\ SubSeq(s, 1, Len(p)) = p

\* s.split(c)
RECURSIVE Split(_, _)
Split(s, c) ==
    IF ~Contains(s, c) THEN <<s>>
    ELSE LET i == FirstIndex(s, c)
         IN  <<SubSeq(s, 1, i-1)>> \o Split(Tail_(s, i+1), c)

\* c.join(parts)
RECURSIVE Join(_, _)
Join(parts, c) ==
    IF Len(parts) = 0 THEN <<>>
    ELSE IF Len(parts) = 1 THEN parts[1]
    ELSE parts[1] \o <<c>> \o Join(Tail(parts), c)

RECURSIVE LStripSet(_, _)
LStripSet(s, cs) ==
    IF Len(s) > 0 /\ s[1] \in cs THEN LStripSet(Tail(s), cs) ELSE s

RECURSIVE RStripSet(_, _)
RStripSet(s, cs) ==
    IF Len(s) > 0 /\ s[Len(s)] \in cs THEN RStripSet(SubSeq(s, 1, Len(s)-1), cs) ELSE s

\* s.strip()
Strip(s) == RStripSet(LStripSet(s, WhiteSpace), WhiteSpace)

\* [s for s in parts if s.strip()]
RECURSIVE NonBlank(_)
NonBlank(parts) ==
    IF Len(parts) = 0 THEN <<>>
    ELSE (IF Strip(parts[1]) # <<>> THEN <<parts[1]>> ELSE <<>>) \o NonBlank(Tail(parts))

\* s.replace(c, '') for a single character c
RECURSIVE RemoveChar(_, _)
RemoveChar(s, c) ==
    IF Len(s) = 0 THEN <<>>
    ELSE (IF s[1] = c THEN <<>> ELSE <<s[1]>>) \o RemoveChar(Tail(s), c)

\* str(n) for n >= 0
RECURSIVE ToStr(_)
ToStr(n) ==
    IF n < 10 THEN <<DigitChars[n+1]>>
    ELSE ToStr(n \div 10) \o <<DigitChars[(n % 10) + 1]>>

(***************************************************************************)
(* normalize_message                                                       *)
(***************************************************************************)
\* re.sub(r'^\x0b', '', content)
StripLeadingVT(s) == IF Len(s) > 0 /\ s[1] = VT THEN Tail(s) ELSE s

\* re.sub(r'\x1c[\r\n]*$', '', content): the leftmost FS followed only by
\* CR/LF up to the end is removed together with that tail
StripTrailingFS(s) ==
    LET Ends(i) == s[i] = FS /\ \A j \in (i+1)..Len(s) : s[j] \in {CR, LF}
    IN  IF \E i \in 1..Len(s) : Ends(i)
        THEN LET i == CHOOSE i \in 1..Len(s) : Ends(i) /\ \A k \in 1..(i-1) : ~Ends(k)
             IN  SubSeq(s, 1, i-1)
        ELSE s

MatchTok(s, t) == Len(s) >= Len(t) /\ \A i \in 1..Len(t) : ToUpper(s[i]) = t[i]

\* re.sub(tok1|tok2, repl, s, flags=re.IGNORECASE): one left-to-right pass,
\* non-overlapping matches, the replacement text is not rescanned
RECURSIVE SubTokens(_, _, _)
SubTokens(s, toks, repl) ==
    IF Len(s) = 0 THEN <<>>
    ELSE IF \E t \in toks : MatchTok(s, t)
         THEN LET t == CHOOSE t \in toks : MatchTok(s, t)
              IN  repl \o SubTokens(Tail_(s, Len(t)+1), toks, repl)
         ELSE <<s[1]>> \o SubTokens(Tail(s), toks, repl)

TokVT == <<"<","V","T",">">>
TokSB == <<"<","S","B",">">>
TokFS == <<"<","F","S",">">>
TokEB == <<"<","E","B",">">>
TokCR == <<"<","C","R",">">>

\* content.replace('\r\n', '\r')
RECURSIVE CollapseCRLF(_)
CollapseCRLF(s) ==
    IF Len(s) = 0 THEN <<>>
    ELSE IF Len(s) >= 2 /\ s[1] = CR /\ s[2] = LF
         THEN <<CR>> \o CollapseCRLF(Tail_(s, 3))
         ELSE <<s[1]>> \o CollapseCRLF(Tail(s))

\* the loop over the fragments of content.split('\r') (parser.py 77-101):
\* parts is result_parts, prev is None or the pending fragment
RECURSIVE RepairLoop(_, _, _, _)
RepairLoop(frags, i, parts, prev) ==
    IF i > Len(frags)
    THEN (IF prev = None THEN parts ELSE Append(parts, The(prev)))
    ELSE LET current == frags[i] IN
         IF prev = None THEN RepairLoop(frags, i+1, parts, Some(current))
         ELSE IF Len(current) = 0
              THEN RepairLoop(frags, i+1, Append(parts, The(prev)), Some(<<>>))
         ELSE IF \/ current[1] = PIPE
                 \/ StartsWith(current, <<LF, PIPE>>)
                 \/ (current[1] = LF /\ Len(current) < 4)
              THEN RepairLoop(frags, i+1, Append(parts, The(prev)),
                              Some(IF current[1] = LF THEN LStripSet(current, {LF})
                                   ELSE current))
         ELSE IF current[1] = LF /\ Len(current) > 4 /\ current[5] # PIPE
              THEN RepairLoop(frags, i+1, Append(parts, The(prev)),
                              Some(<<TILDE>> \o Tail(current)))
         ELSE RepairLoop(frags, i+1, Append(Append(parts, The(prev)), <<CR>>),
                         Some(current))

KnownCodes ==
    { <<"M","S","H">>, <<"M","S","A">>, <<"E","V","N">>, <<"P","I","D">>,
      <<"P","V","1">>, <<"P","V","2">>, <<"N","K","1">>, <<"O","R","C">>,
      <<"O","B","R">>, <<"O","B","X">>, <<"D","G","1">>, <<"I","N","1">>,
      <<"A","L","1">>, <<"G","T","1">>, <<"N","T","E">>, <<"E","R","R">>,
      <<"Q","R","D">>, <<"Q","R","F">>, <<"M","R","G">>, <<"S","C","H">>,
      <<"T","X","A">>, <<"D","S","P">>, <<"Z","D","S">>, <<"Z","P","D">> }

\* seg_pattern matches (with empty width) just before s[p]
IsBoundary(s, p) ==
    /\ p >= 2 /\ s[p-1] # LF
    /\ Len(s) >= p + 3
    /\ s[p+3] = PIPE
    /\ \/ SubSeq(s, p, p+2) \in KnownCodes
       \/ (s[p] = "Z" /\ s[p+1] \in UpperLetters /\ s[p+2] \in UpperLetters \cup Digits)

\* re.split(seg_pattern, s): cut before every boundary position
RECURSIVE SplitBoundaries(_, _, _)
SplitBoundaries(s, start, p) ==
    IF p > Len(s) THEN <<SubSeq(s, start, Len(s))>>
    ELSE IF IsBoundary(s, p)
         THEN <<SubSeq(s, start, p-1)>> \o SplitBoundaries(s, p, p+1)
         ELSE SplitBoundaries(s, start, p+1)

\* mutant: the white space around the content is not stripped before the
\* emptiness test
normalize_message_NoStrip(text) ==
    LET c1 == StripTrailingFS(StripLeadingVT(text))
        c2 == SubTokens(c1, {TokVT, TokSB}, <<>>)
        c3 == SubTokens(c2, {TokFS, TokEB}, <<>>)
        c4 == SubTokens(c3, {TokCR}, <<CR>>)
        c6 == RemoveChar(RemoveChar(c4, VT), FS)
        content == CollapseCRLF(c6)
    IN  IF c6 = <<>> THEN <<>>
        ELSE IF Contains(content, CR)
             THEN NonBlank(Split(Join(RepairLoop(Split(content, CR), 1, <<>>, None), CR), CR))
        ELSE IF Contains(content, LF)
             THEN NonBlank(Split(content, LF))
        ELSE IF \E p \in 1..Len(content) : IsBoundary(content, p)
             THEN NonBlank(SplitBoundaries(content, 1, 2))
        ELSE <<content>>

normalize_message(text) ==
    LET c1 == StripTrailingFS(StripLeadingVT(text))
        c2 == SubTokens(c1, {TokVT, TokSB}, <<>>)
        c3 == SubTokens(c2, {TokFS, TokEB}, <<>>)
        c4 == SubTokens(c3, {TokCR}, <<CR>>)
        c5 == RemoveChar(RemoveChar(c4, VT), FS)
        c6 == Strip(c5)
        content == CollapseCRLF(c6)
    IN  IF c6 = <<>> THEN <<>>
        ELSE IF Contains(content, CR)
             THEN NonBlank(Split(Join(RepairLoop(Split(content, CR), 1, <<>>, None), CR), CR))
        ELSE IF Contains(content, LF)
             THEN NonBlank(Split(content, LF))
        ELSE IF \E p \in 1..Len(content) : IsBoundary(content, p)
             THEN NonBlank(SplitBoundaries(content, 1, 2))
        ELSE <<content>>

(***************************************************************************)
(* Field decomposition (parser.py 119-181)                                 *)
(***************************************************************************)
Component(index, value, subcomponents) ==
    [index |-> index, value |-> value, subcomponents |-> subcomponents]

Repetition(index, value, components) ==
    [index |-> index, value |-> value, components |-> components]

Field(field_num, address, value, raw_value, components, repetitions) ==
    [field_num |-> field_num, address |-> address, value |-> value,
     raw_value |-> raw_value, components |-> components, repetitions |-> repetitions]

\* mutant: a text without component separator gives one trivial component
split_components_Trivial(value) ==
    IF value = <<>> THEN <<>>
    ELSE LET parts == Split(value, CARET)
         IN  [idx \in 1..Len(parts) |->
                Component(idx, parts[idx],
                          IF Contains(parts[idx], AMP) THEN Split(parts[idx], AMP)
                          ELSE <<>>)]

split_components(value) ==
    IF value = <<>> \/ ~Contains(value, CARET) THEN <<>>
    ELSE LET parts == Split(value, CARET)
         IN  [idx \in 1..Len(parts) |->
                Component(idx, parts[idx],
                          IF Contains(parts[idx], AMP) THEN Split(parts[idx], AMP)
                          ELSE <<>>)]

\* [Repetition(index=idx+1, value=rep, components=split_components(rep)) ...]
split_repetitions(raw_value) ==
    LET reps == Split(raw_value, TILDE)
    IN  [idx \in 1..Len(reps) |-> Repetition(idx, reps[idx], split_components(reps[idx]))]

\* mutant: the components are taken from the whole token, not from repetition 1
_parse_field_WholeToken(address, field_num, raw_value) ==
    IF raw_value = <<>>
    THEN Field(field_num, address, raw_value, raw_value, <<>>, <<>>)
    ELSE IF Contains(raw_value, TILDE)
         THEN Field(field_num, address, Split(raw_value, TILDE)[1], raw_value,
                    split_components(raw_value), split_repetitions(raw_value))
         ELSE Field(field_num, address, raw_value, raw_value,
                    split_components(raw_value), <<>>)

_parse_field(address, field_num, raw_value) ==
    IF raw_value = <<>>
    THEN Field(field_num, address, raw_value, raw_value, <<>>, <<>>)
    ELSE IF Contains(raw_value, TILDE)
         THEN LET repetitions == split_repetitions(raw_value)
              IN  Field(field_num, address, Split(raw_value, TILDE)[1], raw_value,
                        repetitions[1].components, repetitions)
         ELSE Field(field_num, address, raw_value, raw_value,
                    split_components(raw_value), <<>>)

\* mutant: the branch without repetition separator leaves the repetitions alone
reparse_field_KeepRepetitions(field, new_raw) ==
    IF new_raw = <<>>
    THEN [field EXCEPT !.raw_value = new_raw, !.value = <<>>,
                       !.components = <<>>, !.repetitions = <<>>]
    ELSE IF Contains(new_raw, TILDE)
         THEN LET repetitions == split_repetitions(new_raw)
              IN  [field EXCEPT !.raw_value = new_raw,
                                !.value = Split(new_raw, TILDE)[1],
                                !.repetitions = repetitions,
                                !.components = repetitions[1].components]
         ELSE [field EXCEPT !.raw_value = new_raw, !.value = new_raw,
                            !.components = split_components(new_raw)]

\* the field after reparse_field(field, new_raw)
reparse_field(field, new_raw) ==
    IF new_raw = <<>>
    THEN [field EXCEPT !.raw_value = new_raw, !.value = <<>>,
                       !.components = <<>>, !.repetitions = <<>>]
    ELSE IF Contains(new_raw, TILDE)
         THEN LET repetitions == split_repetitions(new_raw)
              IN  [field EXCEPT !.raw_value = new_raw,
                                !.value = Split(new_raw, TILDE)[1],
                                !.repetitions = repetitions,
                                !.components = repetitions[1].components]
         ELSE [field EXCEPT !.raw_value = new_raw, !.value = new_raw,
                            !.components = split_components(new_raw),
                            !.repetitions = <<>>]

(***************************************************************************)
(* rebuild_raw_line (parser.py 184-199)                                    *)
(***************************************************************************)
MSH == <<"M","S","H">>

RawValues(fields) == [i \in 1..Len(fields) |-> fields[i].raw_value]

rebuild_raw_line(seg_name, fields) ==
    IF seg_name = MSH
    THEN MSH \o <<PIPE>> \o
         Join(RawValues(SelectSeq(fields, LAMBDA fld : fld.field_num # 1)), PIPE)
    ELSE seg_name \o <<PIPE>> \o Join(RawValues(fields), PIPE)

(***************************************************************************)
(* parse_hl7 (parser.py 202-275)                                           *)
(***************************************************************************)
Segment(name, rep_index, fields, raw_line) ==
    [name |-> name, rep_index |-> rep_index, fields |-> fields, raw_line |-> raw_line]

ParsedMessage(segments, version, message_type, declared_charset) ==
    [segments |-> segments, version |-> version, message_type |-> message_type,
     declared_charset |-> declared_charset]

\* f'MSH-{field_num}'
HeaderAddress(field_num) == MSH \o <<"-">> \o ToStr(field_num)

\* seg_name + (f'[{seg_rep_idx}]' if seg_rep_idx > 1 else '') followed by f'-{j}'
SegmentAddress(seg_name, seg_rep_idx, j) ==
    seg_name \o (IF seg_rep_idx > 1 THEN <<"[">> \o ToStr(seg_rep_idx) \o <<"]">> ELSE <<>>)
             \o <<"-">> \o ToStr(j)

\* mutant: header field 2 is decomposed like any other field
HeaderFields_Decomposed(tokens) ==
    <<Field(1, HeaderAddress(1), <<PIPE>>, <<PIPE>>, <<>>, <<>>)>>
    \o [k \in 1..(Len(tokens) - 1) |->
          _parse_field(HeaderAddress(k + 1), k + 1, tokens[k + 1])]

\* the fields of a header segment from the tokens of its line (227-245)
HeaderFields(tokens) ==
    <<Field(1, HeaderAddress(1), <<PIPE>>, <<PIPE>>, <<>>, <<>>)>>
    \o (IF Len(tokens) > 1
        THEN <<Field(2, HeaderAddress(2), tokens[2], tokens[2], <<>>, <<>>)>>
        ELSE <<>>)
    \o [k \in 1..(Len(tokens) - 2) |->
          _parse_field(HeaderAddress(k + 2), k + 2, tokens[k + 2])]

\* the fields of any other segment (246-251)
PlainFields(seg_name, seg_rep_idx, tokens) ==
    [j \in 1..(Len(tokens) - 1) |->
       _parse_field(SegmentAddress(seg_name, seg_rep_idx, j), j, tokens[j + 1])]

\* next((f for f in fields if f.field_num == n), None)
FindField(fields, n) ==
    IF \E i \in 1..Len(fields) : fields[i].field_num = n
    THEN Some(fields[CHOOSE i \in 1..Len(fields) :
                       /\ fields[i].field_num = n
                       /\ \A k \in 1..(i-1) : fields[k].field_num # n])
    ELSE None

\* mutant: the version keeps the components of field 12
ExtractMetadata_Uncut(result, fields) ==
    LET version_field == FindField(fields, 12)
        msg_type_field == FindField(fields, 9)
        charset_field == FindField(fields, 18)
        charset == The(charset_field).value
    IN  [result EXCEPT
           !.version = IF version_field = None THEN @
                       ELSE Some(The(version_field).value),
           !.message_type = IF msg_type_field = None THEN @
                            ELSE Some(The(msg_type_field).value),
           !.declared_charset = IF charset_field = None THEN @
                                ELSE Some(IF Contains(charset, TILDE)
                                          THEN Split(charset, TILDE)[1] ELSE charset)]

\* result after the metadata extraction from a header segment (253-271)
ExtractMetadata(result, fields) ==
    LET version_field == FindField(fields, 12)
        msg_type_field == FindField(fields, 9)
        charset_field == FindField(fields, 18)
        ver == The(version_field).value
        charset == The(charset_field).value
    IN  [result EXCEPT
           !.version = IF version_field = None THEN @
                       ELSE Some(IF ver # <<>> /\ Contains(ver, CARET)
                                 THEN Split(ver, CARET)[1] ELSE ver),
           !.message_type = IF msg_type_field = None THEN @
                            ELSE Some(The(msg_type_field).value),
           !.declared_charset = IF charset_field = None THEN @
                                ELSE Some(IF Contains(charset, TILDE)
                                          THEN Split(charset, TILDE)[1] ELSE charset)]

\* mutant: one counter shared by the segments of every code
CountOf_Shared(segment_counts, seg_name) ==
    Cardinality(UNION {{<<n, k>> : k \in 1..segment_counts[n]} : n \in DOMAIN segment_counts})

\* segment_counts.get(seg_name, 0)
CountOf(segment_counts, seg_name) ==
    IF seg_name \in DOMAIN segment_counts THEN segment_counts[seg_name] ELSE 0

\* mutant: a short segment code ends the loop instead of skipping the fragment
RECURSIVE ParseLoop_StopAtShort(_, _, _, _)
ParseLoop_StopAtShort(segments_raw, i, segment_counts, result) ==
    IF i > Len(segments_raw) THEN result
    ELSE LET seg_line == segments_raw[i]
             tokens == Split(seg_line, PIPE)
             seg_name == tokens[1]
             seg_rep_idx == CountOf(segment_counts, seg_name) + 1
             counts2 == [n \in DOMAIN segment_counts \cup {seg_name} |->
                           IF n = seg_name THEN seg_rep_idx ELSE segment_counts[n]]
             fields == IF seg_name = MSH THEN HeaderFields(tokens)
                       ELSE PlainFields(seg_name, seg_rep_idx, tokens)
             seg == Segment(seg_name, seg_rep_idx, fields, seg_line)
             result2 == IF seg_name = MSH THEN ExtractMetadata(result, fields) ELSE result
         IN  IF Len(seg_name) < 2
             THEN result
             ELSE ParseLoop_StopAtShort(segments_raw, i+1, counts2,
                                        [result2 EXCEPT !.segments = Append(@, seg)])

\* the loop over segments_raw (211-273)
RECURSIVE ParseLoop(_, _, _, _)
ParseLoop(segments_raw, i, segment_counts, result) ==
    IF i > Len(segments_raw) THEN result
    ELSE LET seg_line == segments_raw[i]
             tokens == Split(seg_line, PIPE)
             seg_name == tokens[1]
             seg_rep_idx == CountOf(segment_counts, seg_name) + 1
             counts2 == [n \in DOMAIN segment_counts \cup {seg_name} |->
                           IF n = seg_name THEN seg_rep_idx ELSE segment_counts[n]]
             fields == IF seg_name = MSH THEN HeaderFields(tokens)
                       ELSE PlainFields(seg_name, seg_rep_idx, tokens)
             seg == Segment(seg_name, seg_rep_idx, fields, seg_line)
             result2 == IF seg_name = MSH THEN ExtractMetadata(result, fields) ELSE result
         IN  IF Len(seg_name) < 2
             THEN ParseLoop(segments_raw, i+1, segment_counts, result)
             ELSE ParseLoop(segments_raw, i+1, counts2,
                            [result2 EXCEPT !.segments = Append(@, seg)])

EmptyCounts == [n \in {} |-> 0]

parse_hl7(text) ==
    LET segments_raw == normalize_message(text)
    IN  IF segments_raw = <<>> THEN None
        ELSE Some(ParseLoop(segments_raw, 1, EmptyCounts,
                            ParsedMessage(<<>>, None, None, None)))

(***************************************************************************)
(* diff_messages (diff.py)                                                 *)
(***************************************************************************)
FieldDiff(address, field_num, status, value_a, value_b, field_a, field_b) ==
    [address |-> address, field_num |-> field_num, status |-> status,
     value_a |-> value_a, value_b |-> value_b, field_a |-> field_a, field_b |-> field_b]

SegmentDiff(name, rep_index, status, field_diffs) ==
    [name |-> name, rep_index |-> rep_index, status |-> status, field_diffs |-> field_diffs]

_seg_key(seg) == <<seg.name, seg.rep_index>>

\* seg_order_a / seg_order_b (54-66)
SegOrder(segments) == [i \in 1..Len(segments) |-> _seg_key(segments[i])]

\* mutant: the dict is filled under the segment code alone and read under the
\* pair (code, rep_index)
SegMapGet_ByName(segments, key) ==
    IF \E i \in 1..Len(segments) : segments[i].name = key
    THEN Some(segments[CHOOSE i \in 1..Len(segments) :
                         /\ segments[i].name = key
                         /\ \A k \in (i+1)..Len(segments) : segments[k].name # key])
    ELSE None

\* seg_map.get(key): the dict keeps the last segment stored under a key
SegMapGet(segments, key) ==
    IF \E i \in 1..Len(segments) : _seg_key(segments[i]) = key
    THEN Some(segments[CHOOSE i \in 1..Len(segments) :
                         /\ _seg_key(segments[i]) = key
                         /\ \A k \in (i+1)..Len(segments) : _seg_key(segments[k]) # key])
    ELSE None

InSeq(x, s) == \E i \in 1..Len(s) : s[i] = x

\* mutant: every key of B is appended, seen before or not
RECURSIVE UnionKeys_All(_, _, _)
UnionKeys_All(all_keys, seg_order_b, i) ==
    IF i > Len(seg_order_b) THEN all_keys
    ELSE UnionKeys_All(Append(all_keys, seg_order_b[i]), seg_order_b, i + 1)

\* all_keys: A's keys, then the keys of B not seen yet (69-74)
RECURSIVE UnionKeys(_, _, _)
UnionKeys(all_keys, seg_order_b, i) ==
    IF i > Len(seg_order_b) THEN all_keys
    ELSE UnionKeys(IF InSeq(seg_order_b[i], all_keys) THEN all_keys
                   ELSE Append(all_keys, seg_order_b[i]),
                   seg_order_b, i + 1)

_make_address(seg_name, rep_index, field_num) ==
    IF rep_index > 1
    THEN seg_name \o <<"[">> \o ToStr(rep_index) \o <<"]">> \o <<"-">> \o ToStr(field_num)
    ELSE seg_name \o <<"-">> \o ToStr(field_num)

ZeroCounts ==
    [total_fields |-> 0, identical |-> 0, modified |-> 0, a_only |-> 0, b_only |-> 0]

\* mutant: the fields of a segment present only in B are left out of the total
Count_NoTotalForB(counts, status) ==
    IF status = "b_only" THEN [counts EXCEPT ![status] = @ + 1]
    ELSE [counts EXCEPT ![status] = @ + 1, !.total_fields = @ + 1]

\* counts[status] += 1; counts['total_fields'] += 1
Count(counts, status) ==
    [counts EXCEPT ![status] = @ + 1, !.total_fields = @ + 1]

\* mutant: a field with an empty raw_value is left out of a one-sided segment
RECURSIVE OneSidedLoop_SkipEmpty(_, _, _, _, _, _)
OneSidedLoop_SkipEmpty(fields, i, seg_name, rep_idx, side, acc) ==
    IF i > Len(fields) THEN acc
    ELSE LET fld == fields[i]
             addr == _make_address(seg_name, rep_idx, fld.field_num)
             fd == IF side = "a_only"
                   THEN FieldDiff(addr, fld.field_num, "a_only",
                                  Some(fld.raw_value), None, Some(fld), None)
                   ELSE FieldDiff(addr, fld.field_num, "b_only",
                                  None, Some(fld.raw_value), None, Some(fld))
         IN  IF fld.raw_value = <<>>
             THEN OneSidedLoop_SkipEmpty(fields, i + 1, seg_name, rep_idx, side, acc)
             ELSE OneSidedLoop_SkipEmpty(fields, i + 1, seg_name, rep_idx, side,
                                         [field_diffs |-> Append(acc.field_diffs, fd),
                                          counts |-> Count(acc.counts, side)])

\* the loop over the fields of a segment present on one side only (86-97, 105-116);
\* acc is [field_diffs, counts]
RECURSIVE OneSidedLoop(_, _, _, _, _, _)
OneSidedLoop(fields, i, seg_name, rep_idx, side, acc) ==
    IF i > Len(fields) THEN acc
    ELSE LET fld == fields[i]
             addr == _make_address(seg_name, rep_idx, fld.field_num)
             fd == IF side = "a_only"
                   THEN FieldDiff(addr, fld.field_num, "a_only",
                                  Some(fld.raw_value), None, Some(fld), None)
                   ELSE FieldDiff(addr, fld.field_num, "b_only",
                                  None, Some(fld.raw_value), None, Some(fld))
         IN  OneSidedLoop(fields, i + 1, seg_name, rep_idx, side,
                          [field_diffs |-> Append(acc.field_diffs, fd),
                           counts |-> Count(acc.counts, side)])

\* _build_field_map(seg).get(fnum): the dict keeps the last field of a number
FieldMapGet(fields, fnum) ==
    IF \E i \in 1..Len(fields) : fields[i].field_num = fnum
    THEN Some(fields[CHOOSE i \in 1..Len(fields) :
                       /\ fields[i].field_num = fnum
                       /\ \A k \in (i+1)..Len(fields) : fields[k].field_num # fnum])
    ELSE None

FieldNums(fields) == {fields[i].field_num : i \in 1..Len(fields)}

\* sorted(S) for a finite set of integers
RECURSIVE Sorted(_)
Sorted(S) ==
    IF S = {} THEN <<>>
    ELSE LET m == CHOOSE x \in S : \A y \in S : x <= y
         IN  <<m>> \o Sorted(S \ {m})

\* mutant: the display value of B's field is compared with A's raw_value
CompareField_ValueVsRaw(fa, fb, addr, fnum) ==
    IF fa # None /\ fb = None
    THEN FieldDiff(addr, fnum, "a_only", Some(The(fa).raw_value), None, fa, None)
    ELSE IF fb # None /\ fa = None
    THEN FieldDiff(addr, fnum, "b_only", None, Some(The(fb).raw_value), None, fb)
    ELSE IF The(fa).raw_value = The(fb).value
    THEN FieldDiff(addr, fnum, "identical",
                   Some(The(fa).raw_value), Some(The(fb).raw_value), fa, fb)
    ELSE FieldDiff(addr, fnum, "modified",
                   Some(The(fa).raw_value), Some(The(fb).raw_value), fa, fb)

\* one field number of a segment present on both sides (132-170)
CompareField(fa, fb, addr, fnum) ==
    IF fa # None /\ fb = None
    THEN FieldDiff(addr, fnum, "a_only", Some(The(fa).raw_value), None, fa, None)
    ELSE IF fb # None /\ fa = None
    THEN FieldDiff(addr, fnum, "b_only", None, Some(The(fb).raw_value), None, fb)
    ELSE IF The(fa).raw_value = The(fb).raw_value
    THEN FieldDiff(addr, fnum, "identical",
                   Some(The(fa).raw_value), Some(The(fb).raw_value), fa, fb)
    ELSE FieldDiff(addr, fnum, "modified",
                   Some(The(fa).raw_value), Some(The(fb).raw_value), fa, fb)

\* mutant: the segment status follows the last field compared
RECURSIVE BothLoop_LastStatus(_, _, _, _, _, _, _)
BothLoop_LastStatus(all_fnums, i, fields_a, fields_b, seg_name, rep_idx, acc) ==
    IF i > Len(all_fnums) THEN acc
    ELSE LET fnum == all_fnums[i]
             fd == CompareField(FieldMapGet(fields_a, fnum), FieldMapGet(fields_b, fnum),
                                _make_address(seg_name, rep_idx, fnum), fnum)
         IN  BothLoop_LastStatus(all_fnums, i + 1, fields_a, fields_b, seg_name, rep_idx,
                      [field_diffs |-> Append(acc.field_diffs, fd),
                       seg_status |-> IF fd.status = "identical" THEN "identical"
                                      ELSE "modified",
                       counts |-> Count(acc.counts, fd.status)])

\* the loop over all_fnums (131-173); acc is [field_diffs, seg_status, counts]
RECURSIVE BothLoop(_, _, _, _, _, _, _)
BothLoop(all_fnums, i, fields_a, fields_b, seg_name, rep_idx, acc) ==
    IF i > Len(all_fnums) THEN acc
    ELSE LET fnum == all_fnums[i]
             fd == CompareField(FieldMapGet(fields_a, fnum), FieldMapGet(fields_b, fnum),
                                _make_address(seg_name, rep_idx, fnum), fnum)
         IN  BothLoop(all_fnums, i + 1, fields_a, fields_b, seg_name, rep_idx,
                      [field_diffs |-> Append(acc.field_diffs, fd),
                       seg_status |-> IF fd.status = "identical" THEN acc.seg_status
                                      ELSE "modified",
                       counts |-> Count(acc.counts, fd.status)])

\* mutant: the fields of a segment that only A has are reported but not counted
RECURSIVE DiffLoop_UncountedA(_, _, _, _, _)
DiffLoop_UncountedA(all_keys, i, segs_a, segs_b, acc) ==
    IF i > Len(all_keys) THEN acc
    ELSE LET key == all_keys[i]
             seg_name == key[1]
             rep_idx == key[2]
             seg_a == SegMapGet(segs_a, key)
             seg_b == SegMapGet(segs_b, key)
             start == [field_diffs |-> <<>>, counts |-> acc.counts]
             only_a == OneSidedLoop(The(seg_a).fields, 1, seg_name, rep_idx, "a_only", start)
             only_b == OneSidedLoop(The(seg_b).fields, 1, seg_name, rep_idx, "b_only", start)
             both == BothLoop(Sorted(FieldNums(The(seg_a).fields)
                                     \cup FieldNums(The(seg_b).fields)),
                              1, The(seg_a).fields, The(seg_b).fields, seg_name, rep_idx,
                              [field_diffs |-> <<>>, seg_status |-> "identical",
                               counts |-> acc.counts])
         IN  IF seg_a # None /\ seg_b = None
             THEN DiffLoop_UncountedA(all_keys, i + 1, segs_a, segs_b,
                    [segment_diffs |-> Append(acc.segment_diffs,
                         SegmentDiff(seg_name, rep_idx, "a_only", only_a.field_diffs)),
                     counts |-> acc.counts])
             ELSE IF seg_b # None /\ seg_a = None
             THEN DiffLoop_UncountedA(all_keys, i + 1, segs_a, segs_b,
                    [segment_diffs |-> Append(acc.segment_diffs,
                         SegmentDiff(seg_name, rep_idx, "b_only", only_b.field_diffs)),
                     counts |-> only_b.counts])
             ELSE DiffLoop_UncountedA(all_keys, i + 1, segs_a, segs_b,
                    [segment_diffs |-> Append(acc.segment_diffs,
                         SegmentDiff(seg_name, rep_idx, both.seg_status, both.field_diffs)),
                     counts |-> both.counts])

\* the loop over all_keys (79-178); acc is [segment_diffs, counts]
RECURSIVE DiffLoop(_, _, _, _, _)
DiffLoop(all_keys, i, segs_a, segs_b, acc) ==
    IF i > Len(all_keys) THEN acc
    ELSE LET key == all_keys[i]
             seg_name == key[1]
             rep_idx == key[2]
             seg_a == SegMapGet(segs_a, key)
             seg_b == SegMapGet(segs_b, key)
             start == [field_diffs |-> <<>>, counts |-> acc.counts]
             only_a == OneSidedLoop(The(seg_a).fields, 1, seg_name, rep_idx, "a_only", start)
             only_b == OneSidedLoop(The(seg_b).fields, 1, seg_name, rep_idx, "b_only", start)
             both == BothLoop(Sorted(FieldNums(The(seg_a).fields)
                                     \cup FieldNums(The(seg_b).fields)),
                              1, The(seg_a).fields, The(seg_b).fields, seg_name, rep_idx,
                              [field_diffs |-> <<>>, seg_status |-> "identical",
                               counts |-> acc.counts])
         IN  IF seg_a # None /\ seg_b = None
             THEN DiffLoop(all_keys, i + 1, segs_a, segs_b,
                    [segment_diffs |-> Append(acc.segment_diffs,
                         SegmentDiff(seg_name, rep_idx, "a_only", only_a.field_diffs)),
                     counts |-> only_a.counts])
             ELSE IF seg_b # None /\ seg_a = None
             THEN DiffLoop(all_keys, i + 1, segs_a, segs_b,
                    [segment_diffs |-> Append(acc.segment_diffs,
                         SegmentDiff(seg_name, rep_idx, "b_only", only_b.field_diffs)),
                     counts |-> only_b.counts])
             ELSE DiffLoop(all_keys, i + 1, segs_a, segs_b,
                    [segment_diffs |-> Append(acc.segment_diffs,
                         SegmentDiff(seg_name, rep_idx, both.seg_status, both.field_diffs)),
                     counts |-> both.counts])

diff_messages(parsed_a, parsed_b) ==
    LET all_keys == UnionKeys(SegOrder(parsed_a.segments), SegOrder(parsed_b.segments), 1)
        done == DiffLoop(all_keys, 1, parsed_a.segments, parsed_b.segments,
                         [segment_diffs |-> <<>>, counts |-> ZeroCounts])
    IN  [segment_diffs |-> done.segment_diffs, summary |-> done.counts,
         version_a |-> parsed_a.version, version_b |-> parsed_b.version,
         type_a |-> parsed_a.message_type, type_b |-> parsed_b.message_type]

\* diff_messages raises: its only partial steps read an attribute of a lookup
\* result that is None, which is _build_field_map(None) for a key neither map
\* holds (122-125) and fa.raw_value for a field number neither map holds (154)
diff_raises(parsed_a, parsed_b) ==
    LET all_keys == UnionKeys(SegOrder(parsed_a.segments), SegOrder(parsed_b.segments), 1)
    IN  \E i \in 1..Len(all_keys) :
            LET seg_a == SegMapGet(parsed_a.segments, all_keys[i])
                seg_b == SegMapGet(parsed_b.segments, all_keys[i])
            IN  \/ seg_a = None /\ seg_b = None
                \/ /\ seg_a # None /\ seg_b # None
                   /\ \E fnum \in FieldNums(The(seg_a).fields) \cup FieldNums(The(seg_b).fields) :
                        /\ FieldMapGet(The(seg_a).fields, fnum) = None
                        /\ FieldMapGet(The(seg_b).fields, fnum) = None

(***************************************************************************)
(* resolve_version (definitions.py 1125-1138)                              *)
(***************************************************************************)
V23 == <<"2",".","3">>
V24 == <<"2",".","4">>
V25 == <<"2",".","5">>
V26 == <<"2",".","6">>
V27 == <<"2",".","7">>
V28 == <<"2",".","8">>

resolve_version(version_string) ==
    IF version_string = None \/ The(version_string) = <<>> THEN V25
    ELSE LET v == Strip(The(version_string))
         IN  IF StartsWith(v, V28) THEN V28
             ELSE IF StartsWith(v, V25) THEN V25
             ELSE IF StartsWith(v, V23) \/ v = V24 THEN V23
             ELSE IF StartsWith(v, V26) \/ StartsWith(v, V27) THEN V25
             ELSE V25

(***************************************************************************)
(* The schema tables (definitions.py 192-1101)                             *)
(*                                                                         *)
(* A table is a dict of segment dicts; a segment dict holds a dict of      *)
(* field definitions under "fields"; a field definition is the dict _f     *)
(* returns.  Every dict is an object of the heap, [refs, dt]: refs maps    *)
(* its keys to the identities of the objects stored under them, dt is the  *)
(* type code of a field definition.  An identity is a sequence of strings  *)
(* and a field number is written as a string.                              *)
(***************************************************************************)
NoRefs == [k \in {} |-> <<>>]

\* obj[key] = id
Put(refs, key, id) == [k \in DOMAIN refs \cup {key} |-> IF k = key THEN id ELSE refs[k]]

\* heap with a new object under identity id
Alloc(h, id, refs, dt) ==
    [x \in DOMAIN h \cup {id} |-> IF x = id THEN [refs |-> refs, dt |-> dt] ELSE h[x]]

\* _f(name, dt, ...): a new field definition
_f(h, id, dt) == Alloc(h, id, NoRefs, dt)

\* the identities of the objects reachable from those in frontier
RECURSIVE Reach(_, _, _)
Reach(h, frontier, seen) ==
    IF frontier \subseteq seen THEN seen
    ELSE Reach(h, UNION {{h[x].refs[k] : k \in DOMAIN h[x].refs} : x \in frontier},
               seen \cup frontier)

\* mutant: copy.copy, a new top-level dict that holds the same segment dicts
deepcopy_Shallow(h, root, tag) ==
    [heap |-> Alloc(h, <<tag>> \o root, h[root].refs, h[root].dt),
     root |-> <<tag>> \o root]

\* copy.deepcopy(root): every reachable object gets a copy under a new
\* identity, and the copies refer to each other
deepcopy(h, root, tag) ==
    LET old == Reach(h, {root}, {})
        new == {<<tag>> \o y : y \in old}
    IN  [heap |-> [x \in DOMAIN h \cup new |->
                     IF x \in DOMAIN h THEN h[x]
                     ELSE [refs |-> [k \in DOMAIN h[Tail(x)].refs |->
                                       <<tag>> \o h[Tail(x)].refs[k]],
                           dt |-> h[Tail(x)].dt]],
         root |-> <<tag>> \o root]

\* the fields dict of T[seg]
FieldsOf(h, root, seg) == h[h[root].refs[seg]].refs["fields"]

\* T[seg]["fields"][fnum] = _f(..., dt, ...), with id the new object
AssignField(h, root, seg, fnum, dt, id) ==
    LET fd == FieldsOf(h, root, seg)
    IN  [_f(h, id, dt) EXCEPT ![fd].refs = Put(@, fnum, id)]

\* T[seg] = {"name": ..., "fields": {fnum: _f(..., dt, ...)}}, with id the
\* prefix of the new objects
AssignSegment(h, root, seg, fnum, dt, id) ==
    LET h1 == _f(h, id \o <<"f">>, dt)
        h2 == Alloc(h1, id \o <<"fields">>, Put(NoRefs, fnum, id \o <<"f">>), "")
        h3 == Alloc(h2, id \o <<"seg">>, Put(NoRefs, "fields", id \o <<"fields">>), "")
    IN  [h3 EXCEPT ![root].refs = Put(@, seg, id \o <<"seg">>)]

\* the body of the narrowing loop for one (segment, field number) (1094-1099)
NarrowField(h, root, seg, fnum, id) ==
    LET fields == h[FieldsOf(h, root, seg)].refs
    IN  IF fnum \in DOMAIN fields /\ h[fields[fnum]].dt = "CE"
        THEN AssignField(h, root, seg, fnum, "CWE", id)
        ELSE h

\* T[seg]["fields"][fnum]["dt"] = dt
AssignType(h, root, seg, fnum, dt) ==
    [h EXCEPT ![h[FieldsOf(h, root, seg)].refs[fnum]].dt = dt]

\* HL7_V23 = {...}: an excerpt of the literal (197-616)
BaseHeap ==
    LET h1 == AssignSegment(Alloc(<<>>, <<"T">>, NoRefs, ""), <<"T">>, "OBX", "3", "CE", <<"OBX">>)
        h2 == AssignField(h1, <<"T">>, "OBX", "5", "*", <<"OBX", "5">>)
    IN  AssignSegment(h2, <<"T">>, "ERR", "1", "CM", <<"ERR">>)

\* what a table reads as: segment code -> field number -> type code
View(h, root) ==
    [seg \in DOMAIN h[root].refs |->
       [fnum \in DOMAIN h[FieldsOf(h, root, seg)].refs |->
          h[h[FieldsOf(h, root, seg)].refs[fnum]].dt]]

(***************************************************************************)
(* Inputs                                                                  *)
(***************************************************************************)
MaxFields == 2
MaxSegs == 4
MaxOtherSegs == 2

OBX == <<"O","B","X">>
ENC == <<CARET, TILDE, "\\", AMP>>

TuplesUpTo(S, n) == UNION {[1..k -> S] : k \in 0..n}

\* code|tok1|...|tokn
Line(code, toks) == Join(<<code>> \o toks, PIPE)

FieldTexts ==
    { <<>>, <<"A">>, <<"A",CARET,"B",AMP,"C">>, <<"A",TILDE,"B",CARET,"C">>, ENC }

\* one segment line, every combination of up to MaxFields tokens
FieldInputs ==
    { Line(code, toks) : code \in {MSH, OBX}, toks \in TuplesUpTo(FieldTexts, MaxFields) }

SegLines ==
    { Line(MSH, <<ENC>>), Line(OBX, <<<<"A",CARET,"B">>>>), Line(<<"Z">>, <<<<"A">>>>) }

Messages(n) == { Join(ls, CR) : ls \in TuplesUpTo(SegLines, n) \ {<<>>} }

\* up to MaxSegs segment lines separated by CR
SegInputs == Messages(MaxSegs)

MetaTexts == { <<>>, <<"2",".","5">>, <<"A",CARET,"B">>, <<"A",TILDE,"B",CARET,"C">> }

\* a header line with n fields; fields 9, 12 and 18 carry t9, t12, t18
HeaderLine(n, t9, t12, t18) ==
    Line(MSH, [k \in 1..(n - 1) |->
                 CASE k = 1 -> ENC [] k = 8 -> t9 [] k = 11 -> t12 [] k = 17 -> t18
                   [] OTHER -> <<>>])

\* two header segments, only one of them with a field 12
TwoHeaders ==
    LET long == HeaderLine(12, <<"X">>, <<"2",".","5">>, <<>>)
    IN  UNION {{long \o <<CR>> \o short, short \o <<CR>> \o long} :
                 short \in {Line(MSH, <<ENC>>), HeaderLine(9, <<"A",CARET,"B">>, <<>>, <<>>)}}

HeaderInputs ==
    { HeaderLine(n, t, t, <<"U">>) : n \in {9, 12}, t \in MetaTexts }
    \cup { HeaderLine(18, <<"A",CARET,"B">>, t12, t18) : t12 \in MetaTexts, t18 \in MetaTexts }
    \cup TwoHeaders

FramedInputs ==
    { <<>>, <<" ">>, <<VT>> \o Line(MSH, <<ENC>>) \o <<FS, CR>>,
      Line(OBX, <<>>) \o <<CR, LF>> \o Line(OBX, <<<<"A">>>>) \o <<CR>> }

\* texts without a segment: framing and placeholders only, and plain words
BlankInputs ==
    { <<VT, FS, CR>>, <<" ", LF, "\t">>,
      <<"<","v","t",">", " ", "<","C","R",">", "<","F","S",">">>,
      <<"<","F","<","V","T",">","S",">">> }

NonsenseInputs == { <<"n","o"," ","h","l","7">>, <<"x">> }

Inputs ==
    FieldInputs \cup SegInputs \cup HeaderInputs \cup FramedInputs
    \cup BlankInputs \cup NonsenseInputs

\* the second message of a comparison
OtherInputs == Messages(MaxOtherSegs) \cup {Line(OBX, <<<<"A">>, <<"B">>>>)}

\* the texts an edit writes: empty, plain, and one with every separator
EditTexts == { <<>>, <<"B">>, <<"C",CARET,"D",AMP,"E",TILDE,"F">> }

(***************************************************************************)
(* The session: parse a text, edit fields of the tree, regenerate raw      *)
(* lines, compare trees                                                    *)
(***************************************************************************)
\* no text was read
NoSession ==
    /\ raw = <<>> /\ msg = None /\ orig = None /\ phase = "input"
    /\ last = [op |-> "none"]
    /\ left = None /\ right = None /\ report = None

\* no version token is held
NoResolution == token = None /\ generation = None

\* the schema tables are not looked at
NoSchema ==
    /\ heap = <<>>
    /\ tables = [v23 |-> None, v25 |-> None, v28 |-> None]
    /\ load = "idle"
    /\ op = [gen |-> "none", kind |-> "none"]
    /\ live = 0

\* no parse_hl7 call runs step by step
NoCalls == calls = <<>> /\ counters = <<>>

\* no tree is anonymized
NoAnon == store = <<>> /\ given = None /\ anon = None /\ snapshot = None

\* no text is normalized
NoWire == input = <<>> /\ normalized = None /\ wire = None

\* no tool was called
NoTools == message = <<>> /\ changes = <<>> /\ transformed = None /\ answer = None

Init ==
    /\ raw \in Inputs
    /\ msg = None
    /\ orig = None
    /\ phase = "input"
    /\ last = [op |-> "none"]
    /\ left = None /\ right = None /\ report = None
    /\ NoResolution
    /\ NoSchema
    /\ NoCalls
    /\ NoAnon
    /\ NoWire
    /\ NoTools

\* parsed = parse_hl7(raw)
Parse ==
    /\ phase = "input"
    /\ msg' = parse_hl7(raw)
    /\ orig' = msg'
    /\ phase' = IF msg' = None THEN "absent" ELSE "parsed"
    /\ last' = [op |-> "parse"]
    /\ UNCHANGED <<raw, left, right, report>>
    /\ UNCHANGED outside_session

Segs == The(msg).segments

\* reparse_field(fld, new_raw) on field j of segment i; a session changes one
\* field, any number of times
Reparse(i, j, new_raw) ==
    /\ phase = "parsed"
    /\ last.op \in {"reparse", "rebuild"} => (last.seg = i /\ last.fld = j)
    /\ msg' = Some([The(msg) EXCEPT !.segments[i].fields[j] = reparse_field(@, new_raw)])
    /\ last' = [op |-> "reparse", seg |-> i, fld |-> j, new_raw |-> new_raw]
    /\ UNCHANGED <<raw, orig, phase, left, right, report>>
    /\ UNCHANGED outside_session

\* seg.raw_line = rebuild_raw_line(seg.name, seg.fields)
Rebuild(i) ==
    /\ phase = "parsed"
    /\ last.op = "reparse" /\ last.seg = i
    /\ msg' = Some([The(msg) EXCEPT !.segments[i].raw_line =
                        rebuild_raw_line(Segs[i].name, Segs[i].fields)])
    /\ last' = [op |-> "rebuild", seg |-> i, fld |-> last.fld]
    /\ UNCHANGED <<raw, orig, phase, left, right, report>>
    /\ UNCHANGED outside_session

\* diff_messages(parsed, modified): the tree as parsed against the edited tree
DiffEdited ==
    /\ phase = "parsed"
    /\ left' = orig
    /\ right' = msg
    /\ IF diff_raises(The(left'), The(right'))
       THEN report' = None /\ phase' = "failed"
       ELSE report' = Some(diff_messages(The(left'), The(right'))) /\ phase' = "diffed"
    /\ last' = [op |-> "diff"]
    /\ UNCHANGED <<raw, msg, orig>>
    /\ UNCHANGED outside_session

\* diff_messages(parsed, parse_hl7(other))
DiffOther(other) ==
    /\ phase = "parsed"
    /\ last.op = "parse"
    /\ parse_hl7(other) # None
    /\ left' = msg
    /\ right' = parse_hl7(other)
    /\ IF diff_raises(The(left'), The(right'))
       THEN report' = None /\ phase' = "failed"
       ELSE report' = Some(diff_messages(The(left'), The(right'))) /\ phase' = "diffed"
    /\ last' = [op |-> "diff"]
    /\ UNCHANGED <<raw, msg, orig>>
    /\ UNCHANGED outside_session

\* the version tokens: a body, surrounded by nothing or white space, with
\* nothing, a patch number or other text after it
VersionBodies ==
    { <<"2", ".", DigitChars[m + 1]>> : m \in 0..9 }
    \cup { <<>>, <<"2">>, <<"2", ".">>, <<"3", ".", "5">>, <<"v">>, <<"2", "8">> }

VersionTails == { <<>>, <<".", "1">>, <<".", "1", "0">>, <<" ">>, <<"b">> }

VersionTokens ==
    {None} \cup { Some(lead \o body \o tail) :
                     lead \in {<<>>, <<" ">>}, body \in VersionBodies, tail \in VersionTails }

\* a caller holds a version token
InitVersion ==
    /\ token \in VersionTokens
    /\ generation = None
    /\ NoSession
    /\ NoSchema
    /\ NoCalls
    /\ NoAnon
    /\ NoWire
    /\ NoTools

\* generation = resolve_version(token)
Resolve ==
    /\ generation = None
    /\ generation' = Some(resolve_version(token))
    /\ UNCHANGED token
    /\ UNCHANGED outside_resolution

NextVersion == Resolve

VersionSpec == InitVersion /\ [][NextVersion]_vars

\* the number of statements applied to the loaded tables
MaxLive == 2

\* the module body has run up to HL7_V23 = {...}
InitSchema ==
    /\ heap = BaseHeap
    /\ tables = [v23 |-> Some(<<"T">>), v25 |-> None, v28 |-> None]
    /\ load = "v23"
    /\ op = [gen |-> "v23", kind |-> "literal"]
    /\ live = 0
    /\ NoSession
    /\ NoResolution
    /\ NoCalls
    /\ NoAnon
    /\ NoWire
    /\ NoTools

\* HL7_V25 = copy.deepcopy(HL7_V23)
Copy25 ==
    /\ load = "v23"
    /\ LET c == deepcopy(heap, The(tables.v23), "c25")
       IN  heap' = c.heap /\ tables' = [tables EXCEPT !.v25 = Some(c.root)]
    /\ load' = "copy25"
    /\ op' = [gen |-> "v25", kind |-> "copy"]
    /\ UNCHANGED live
    /\ UNCHANGED outside_schema

\* the v2.5 extensions: added fields, the redefined ERR, new segments (623-1056)
Extend25 ==
    /\ load = "copy25"
    /\ LET root == The(tables.v25)
           h1 == AssignField(heap, root, "OBX", "18", "EI", <<"l25", "OBX", "18">>)
           h2 == AssignSegment(h1, root, "ERR", "1", "ELD", <<"l25", "ERR">>)
       IN  heap' = AssignSegment(h2, root, "SFT", "1", "XON", <<"l25", "SFT">>)
    /\ load' = "extend25"
    /\ op' = [gen |-> "v25", kind |-> "extend"]
    /\ UNCHANGED <<tables, live>>
    /\ UNCHANGED outside_schema

\* HL7_V28 = copy.deepcopy(HL7_V25)
Copy28 ==
    /\ load = "extend25"
    /\ LET c == deepcopy(heap, The(tables.v25), "c28")
       IN  heap' = c.heap /\ tables' = [tables EXCEPT !.v28 = Some(c.root)]
    /\ load' = "copy28"
    /\ op' = [gen |-> "v28", kind |-> "copy"]
    /\ UNCHANGED live
    /\ UNCHANGED outside_schema

\* the v2.8 extensions (1063-1075)
Extend28 ==
    /\ load = "copy28"
    /\ heap' = AssignField(heap, The(tables.v28), "OBX", "20", "CWE", <<"l28", "OBX", "20">>)
    /\ load' = "extend28"
    /\ op' = [gen |-> "v28", kind |-> "extend"]
    /\ UNCHANGED <<tables, live>>
    /\ UNCHANGED outside_schema

\* the narrowing pass over the listed (segment, field number) pairs (1078-1099)
Narrow28 ==
    /\ load = "extend28"
    /\ LET root == The(tables.v28)
           h1 == NarrowField(heap, root, "OBX", "3", <<"l28", "OBX", "3">>)
       IN  heap' = NarrowField(h1, root, "OBX", "5", <<"l28", "OBX", "5">>)
    /\ load' = "loaded"
    /\ op' = [gen |-> "v28", kind |-> "narrow"]
    /\ UNCHANGED <<tables, live>>
    /\ UNCHANGED outside_schema

LiveSegs == {"OBX", "ERR", "ZZZ"}
LiveFields == {"3", "20"}
LiveTypes == {"CE", "ST"}

\* the identity of the objects the next live statement creates
Fresh == <<"n">> \o ToStr(live + 1)

\* a statement on a loaded table of generation g, which is v25 or v28
LiveStatement(g, kind, h) ==
    /\ heap' = h
    /\ live' = live + 1
    /\ op' = [gen |-> g, kind |-> kind]
    /\ UNCHANGED <<tables, load>>
    /\ UNCHANGED outside_schema

\* T[seg]["fields"][fnum] = _f(...) on a loaded table: an addition or an override
LiveAssignField(g, seg, fnum, dt) ==
    /\ load = "loaded" /\ live < MaxLive
    /\ seg \in DOMAIN heap[The(tables[g])].refs
    /\ LiveStatement(g, "field", AssignField(heap, The(tables[g]), seg, fnum, dt, Fresh))

\* T[seg] = {...} on a loaded table: a new or redefined segment
LiveAssignSegment(g, seg, fnum, dt) ==
    /\ load = "loaded" /\ live < MaxLive
    /\ LiveStatement(g, "segment", AssignSegment(heap, The(tables[g]), seg, fnum, dt, Fresh))

\* the narrowing of one field of a loaded table
LiveNarrow(g, seg, fnum) ==
    /\ load = "loaded" /\ live < MaxLive
    /\ seg \in DOMAIN heap[The(tables[g])].refs
    /\ LiveStatement(g, "narrow", NarrowField(heap, The(tables[g]), seg, fnum, Fresh))

\* T[seg]["fields"][fnum]["dt"] = dt on a loaded table
LiveAssignType(g, seg, fnum, dt) ==
    /\ load = "loaded" /\ live < MaxLive
    /\ seg \in DOMAIN heap[The(tables[g])].refs
    /\ fnum \in DOMAIN heap[FieldsOf(heap, The(tables[g]), seg)].refs
    /\ LiveStatement(g, "type", AssignType(heap, The(tables[g]), seg, fnum, dt))

NextSchema ==
    \/ Copy25
    \/ Extend25
    \/ Copy28
    \/ Extend28
    \/ Narrow28
    \/ \E g \in {"v25", "v28"} : \E seg \in LiveSegs : \E fnum \in LiveFields :
         \/ \E dt \in LiveTypes : LiveAssignField(g, seg, fnum, dt)
         \/ \E dt \in LiveTypes : LiveAssignSegment(g, seg, fnum, dt)
         \/ LiveNarrow(g, seg, fnum)
         \/ \E dt \in LiveTypes : LiveAssignType(g, seg, fnum, dt)

SchemaSpec == InitSchema /\ [][NextSchema]_vars

Next ==
    \/ Parse
    \/ /\ phase = "parsed"
       /\ \E i \in 1..Len(Segs) : \E j \in 1..Len(Segs[i].fields) :
            \E new_raw \in EditTexts : Reparse(i, j, new_raw)
    \/ /\ phase = "parsed"
       /\ \E i \in 1..Len(Segs) : Rebuild(i)
    \/ DiffEdited
    \/ \E other \in OtherInputs : DiffOther(other)

Spec == Init /\ [][Next]_vars

(***************************************************************************)
(* parse_hl7 calls that run step by step (parser.py 202-275)               *)
(*                                                                         *)
(* Each call has a frame: its argument, its position, and its locals       *)
(* segments_raw, the loop index and result.  A step of a call is the       *)
(* start up to the loop, one line up to the increment of its counter, or   *)
(* the rest of that line; the steps of different calls interleave freely.  *)
(***************************************************************************)
\* the number of calls
MaxCalls == 2

CallTexts ==
    { <<>>,
      Join(<<Line(OBX, <<<<"A">>>>), Line(OBX, <<<<"B">>>>)>>, CR),
      Join(<<HeaderLine(12, <<"X">>, <<"2",".","5">>, <<>>), Line(OBX, <<<<"A">>>>),
             Line(<<"Z">>, <<<<"A">>>>), Line(OBX, <<<<"B">>>>)>>, CR),
      Join(<<Line(OBX, <<>>), Line(MSH, <<ENC>>), Line(MSH, <<ENC>>)>>, CR) }

\* mutant: segment_counts is one dict of the module, emptied when a call starts
CountsOwner_Shared(c) == 1

\* the dict a call counts in: segment_counts is a local of the call (209)
CountsOwner(c) == c

Frame(text, pc, segments_raw, i, result) ==
    [text |-> text, pc |-> pc, segments_raw |-> segments_raw, i |-> i, result |-> result]

\* the calls are about to be made, each with its text
InitCalls ==
    /\ calls \in [1..MaxCalls -> {Frame(text, "idle", <<>>, 1, None) : text \in CallTexts}]
    /\ counters = [c \in 1..MaxCalls |-> EmptyCounts]
    /\ NoSession
    /\ NoResolution
    /\ NoSchema
    /\ NoAnon
    /\ NoWire
    /\ NoTools

\* segments_raw = normalize_message(raw) ... segment_counts = {} (204-209)
CallBegin(c) ==
    /\ calls[c].pc = "idle"
    /\ LET segments_raw == normalize_message(calls[c].text)
       IN  IF segments_raw = <<>>
           THEN /\ calls' = [calls EXCEPT ![c].pc = "done", ![c].result = None]
                /\ UNCHANGED counters
           ELSE /\ calls' = [calls EXCEPT
                               ![c].pc = "count",
                               ![c].segments_raw = segments_raw,
                               ![c].i = 1,
                               ![c].result = Some(ParsedMessage(<<>>, None, None, None))]
                /\ counters' = [counters EXCEPT ![CountsOwner(c)] = EmptyCounts]
    /\ UNCHANGED outside_invocations

\* where a call goes after a line: to the next line, or to return result (211, 275)
Advance(frame) ==
    [frame EXCEPT !.i = @ + 1,
                  !.pc = IF frame.i + 1 > Len(frame.segments_raw) THEN "done" ELSE "count"]

\* one line up to segment_counts[seg_name] = segment_counts.get(seg_name, 0) + 1
\* (211-217)
CallCount(c) ==
    /\ calls[c].pc = "count"
    /\ LET seg_name == Split(calls[c].segments_raw[calls[c].i], PIPE)[1]
           segment_counts == counters[CountsOwner(c)]
       IN  IF Len(seg_name) < 2
           THEN /\ calls' = [calls EXCEPT ![c] = Advance(@)]
                /\ UNCHANGED counters
           ELSE /\ calls' = [calls EXCEPT ![c].pc = "build"]
                /\ counters' = [counters EXCEPT ![CountsOwner(c)] =
                                  [n \in DOMAIN segment_counts \cup {seg_name} |->
                                     IF n = seg_name THEN CountOf(segment_counts, seg_name) + 1
                                     ELSE segment_counts[n]]]
    /\ UNCHANGED outside_invocations

\* the rest of the line: seg_rep_idx = segment_counts[seg_name], the segment,
\* its fields, the metadata, result.segments.append(seg) (218-273); the
\* subscript raises KeyError when the dict has no entry for seg_name
CallBuild(c) ==
    /\ calls[c].pc = "build"
    /\ LET seg_line == calls[c].segments_raw[calls[c].i]
           tokens == Split(seg_line, PIPE)
           seg_name == tokens[1]
           segment_counts == counters[CountsOwner(c)]
       IN  IF seg_name \notin DOMAIN segment_counts
           THEN calls' = [calls EXCEPT ![c].pc = "raised", ![c].result = None]
           ELSE LET seg_rep_idx == segment_counts[seg_name]
                    fields == IF seg_name = MSH THEN HeaderFields(tokens)
                              ELSE PlainFields(seg_name, seg_rep_idx, tokens)
                    seg == Segment(seg_name, seg_rep_idx, fields, seg_line)
                    result == The(calls[c].result)
                    result2 == IF seg_name = MSH THEN ExtractMetadata(result, fields)
                               ELSE result
                IN  calls' = [calls EXCEPT ![c] =
                                Advance([@ EXCEPT !.result =
                                           Some([result2 EXCEPT !.segments = Append(@, seg)])])]
    /\ UNCHANGED counters
    /\ UNCHANGED outside_invocations

NextCalls ==
    \E c \in 1..MaxCalls :
        \/ CallBegin(c)
        \/ CallCount(c)
        \/ CallBuild(c)

CallsSpec == InitCalls /\ [][NextCalls]_vars

(***************************************************************************)
(* anonymize_message (anonymize.py)                                        *)
(*                                                                         *)
(* The random module is a generator with a state: seed stands for the      *)
(* state a call finds, and the k-th draw a generator makes from n          *)
(* outcomes is Draw(seed, k, n).                                           *)
(***************************************************************************)
Draw(seed, k, n) == (seed + k) % n

\* excerpts of the pools (16-80); a character outside ASCII is written as
\* its code point
ASCII_NAMES == << <<<<"S","m","i","t","h">>, <<"J","o","h","n">>>>,
                  <<<<"D","o","e">>, <<"J","a","n","e">>>> >>
ESTONIAN_NAMES == << <<<<"U+00D6","m","i","n">>, <<"U+00D5","g">>>>,
                     <<<<"T","U+00E4","g">>, <<"U+017D","U+00FC">>>> >>
_ASCII_STREETS == << <<"O","a","k"," ","1","2">>, <<"E","l","m"," ","2","1">> >>
_ESTONIAN_STREETS == << <<"P","U+00E4","r","n","u"," ","4","2">>, <<"K","U+00FC"," ","8">> >>
_ASCII_CITIES == << <<"T","a","r","t","u">>, <<"B","r","i","s","t","o","l">> >>
_ESTONIAN_CITIES == << <<"P","U+00E4","r","U+00F6">>, <<"V","U+00F5","r","U+00FC">> >>

\* random.choice(pool)
Choice(pool, seed, k) == pool[Draw(seed, k, Len(pool)) + 1]

UpperChars ==
    <<"A","B","C","D","E","F","G","H","I","J","K","L","M",
      "N","O","P","Q","R","S","T","U","V","W","X","Y","Z">>
LowerChars ==
    <<"a","b","c","d","e","f","g","h","i","j","k","l","m",
      "n","o","p","q","r","s","t","u","v","w","x","y","z">>
IsUpper(ch) == \E k \in 1..26 : UpperChars[k] = ch
IsLower(ch) == \E k \in 1..26 : LowerChars[k] = ch

\* _randomize_digits(s) (86-91)
_randomize_digits(s, seed) ==
    [k \in 1..Len(s) |-> IF s[k] \in Digits THEN DigitChars[Draw(seed, k, 10) + 1] ELSE s[k]]

\* _randomize_alphanum(s) (94-105)
_randomize_alphanum(s, seed) ==
    [k \in 1..Len(s) |->
       IF s[k] \in Digits THEN DigitChars[Draw(seed, k, 10) + 1]
       ELSE IF IsUpper(s[k]) THEN UpperChars[Draw(seed, k, 26) + 1]
       ELSE IF IsLower(s[k]) THEN LowerChars[Draw(seed, k, 26) + 1]
       ELSE s[k]]

\* _generate_fake_city(use_non_ascii) (117-120)
_generate_fake_city(use_non_ascii, seed) ==
    Choice(IF use_non_ascii THEN _ESTONIAN_CITIES ELSE _ASCII_CITIES, seed, 0)

\* [rep.split("^") for rep in raw_value.split("~")]
RepParts(raw_value) ==
    LET reps == Split(raw_value, TILDE)
    IN  [r \in 1..Len(reps) |-> Split(reps[r], CARET)]

\* "~".join("^".join(parts) for parts in out_reps)
JoinReps(out_reps) == Join([r \in 1..Len(out_reps) |-> Join(out_reps[r], CARET)], TILDE)

\* _generate_fake_id(raw_value) (123-134)
_generate_fake_id(raw_value, seed) ==
    IF raw_value = <<>> THEN raw_value
    ELSE LET reps == RepParts(raw_value)
         IN  JoinReps([r \in 1..Len(reps) |->
                         [reps[r] EXCEPT ![1] = _randomize_digits(@, seed + r)]])

\* _generate_fake_name(raw_value, pool) (137-153)
_generate_fake_name(raw_value, pool, seed) ==
    IF raw_value = <<>> THEN raw_value
    ELSE LET reps == RepParts(raw_value)
         IN  JoinReps([r \in 1..Len(reps) |->
                         [k \in 1..Len(reps[r]) |->
                            CASE k = 1 -> Choice(pool, seed, r)[1]
                              [] k = 2 -> Choice(pool, seed, r)[2]
                              [] k = 3 -> <<>>
                              [] OTHER -> reps[r][k]]])

\* int(text) for a text of digits
RECURSIVE ToInt(_)
ToInt(s) ==
    IF s = <<>> THEN 0
    ELSE 10 * ToInt(SubSeq(s, 1, Len(s) - 1))
         + ((CHOOSE d \in 1..10 : DigitChars[d] = s[Len(s)]) - 1)

Clamp(lo, x, hi) == IF x < lo THEN lo ELSE IF x > hi THEN hi ELSE x

\* _shift_date(raw_value) (156-166); int() raises ValueError unless the
\* first four characters are digits
_shift_date(raw_value, seed) ==
    IF Len(raw_value) < 4 THEN raw_value
    ELSE IF \E k \in 1..4 : raw_value[k] \notin Digits THEN raw_value
    ELSE LET year == ToInt(SubSeq(raw_value, 1, 4))
             shift == (IF Draw(seed, 0, 2) = 0 THEN -1 ELSE 1) * (Draw(seed, 1, 20) + 1)
         IN  ToStr(Clamp(1900, year + shift, 2099)) \o SubSeq(raw_value, 5, Len(raw_value))

\* _generate_fake_address(raw_value, use_non_ascii) (169-189)
_generate_fake_address(raw_value, use_non_ascii, seed) ==
    IF raw_value = <<>> THEN raw_value
    ELSE LET streets == IF use_non_ascii THEN _ESTONIAN_STREETS ELSE _ASCII_STREETS
             cities == IF use_non_ascii THEN _ESTONIAN_CITIES ELSE _ASCII_CITIES
             reps == RepParts(raw_value)
         IN  JoinReps([r \in 1..Len(reps) |->
                         [k \in 1..Len(reps[r]) |->
                            CASE k = 1 -> Choice(streets, seed, r)
                              [] k = 2 -> <<>>
                              [] k = 3 -> Choice(cities, seed, r + 1)
                              [] k = 5 -> _randomize_digits(reps[r][5], seed + r)
                              [] OTHER -> reps[r][k]]])

\* _generate_fake_phone(raw_value) (192-202)
_generate_fake_phone(raw_value, seed) ==
    IF raw_value = <<>> THEN raw_value
    ELSE LET reps == RepParts(raw_value)
         IN  JoinReps([r \in 1..Len(reps) |->
                         [k \in 1..Len(reps[r]) |->
                            _randomize_digits(reps[r][k], seed + r + k)]])

PID == <<"P","I","D">>
NK1 == <<"N","K","1">>
GT1 == <<"G","T","1">>
IN1 == <<"I","N","1">>
MRG == <<"M","R","G">>

\* new_raw for one field of a segment: the if/elif chains of 233-314
NewRaw(seg_name, fld, use_non_ascii, seed) ==
    LET n == fld.field_num
        raw_value == fld.raw_value
        pool == IF use_non_ascii THEN ESTONIAN_NAMES ELSE ASCII_NAMES
        id == Some(_generate_fake_id(raw_value, seed))
        name == Some(_generate_fake_name(raw_value, pool, seed))
        date == Some(_shift_date(raw_value, seed))
        address == Some(_generate_fake_address(raw_value, use_non_ascii, seed))
        phone == Some(_generate_fake_phone(raw_value, seed))
    IN  CASE seg_name = PID ->
               (CASE n \in {2, 3} -> id
                  [] n \in {5, 6, 9} -> name
                  [] n = 7 -> date
                  [] n = 11 -> address
                  [] n \in {13, 14} -> phone
                  [] n \in {18, 21} -> id
                  [] n \in {19, 20} ->
                       IF raw_value # <<>> THEN Some(_randomize_alphanum(raw_value, seed))
                       ELSE None
                  [] n = 23 ->
                       IF raw_value # <<>> THEN Some(_generate_fake_city(use_non_ascii, seed))
                       ELSE None
                  [] OTHER -> None)
          [] seg_name = NK1 ->
               (CASE n = 2 -> name
                  [] n = 4 -> address
                  [] n \in {5, 6} -> phone
                  [] OTHER -> None)
          [] seg_name = GT1 ->
               (CASE n = 3 -> name
                  [] n = 5 -> address
                  [] n \in {6, 7} -> phone
                  [] n = 8 -> date
                  [] n = 12 ->
                       IF raw_value # <<>> THEN Some(_randomize_digits(raw_value, seed))
                       ELSE None
                  [] OTHER -> None)
          [] seg_name = IN1 ->
               (CASE n = 16 -> name
                  [] n = 18 -> date
                  [] n = 19 -> address
                  [] OTHER -> None)
          [] seg_name = MRG ->
               (CASE n \in {1, 2, 3, 4} -> id
                  [] n = 7 -> name
                  [] OTHER -> None)
          [] OTHER -> None

(***************************************************************************)
(* A tree on the heap: the ParsedMessage object refers to its segments     *)
(* list, the list to the Segment objects, a Segment to its fields list,    *)
(* the list to the Field objects.  dt holds an object's other attributes;  *)
(* reparse_field assigns the attributes of a Field and never changes a     *)
(* components or repetitions list in place, so these are held as values.   *)
(***************************************************************************)
SegId(tag, i) == <<tag, "s">> \o ToStr(i)
FieldId(tag, i, j) == SegId(tag, i) \o <<"f">> \o ToStr(j)

\* the objects of a tree as parse_hl7 builds them
LoadTree(tree, tag) ==
    LET n == Len(tree.segments)
        segs == {SegId(tag, i) : i \in 1..n}
        lists == {SegId(tag, i) \o <<"fields">> : i \in 1..n}
        flds == UNION {{FieldId(tag, i, j) : j \in 1..Len(tree.segments[i].fields)} : i \in 1..n}
        SegOf(x) == CHOOSE i \in 1..n : x \in {SegId(tag, i), SegId(tag, i) \o <<"fields">>}
        FieldOf(x) == CHOOSE ij \in UNION {{<<i, j>> : j \in 1..Len(tree.segments[i].fields)} : i \in 1..n} :
                         x = FieldId(tag, ij[1], ij[2])
    IN  [x \in {<<tag>>, <<tag, "segments">>} \cup segs \cup lists \cup flds |->
           IF x = <<tag>>
           THEN [refs |-> Put(NoRefs, "segments", <<tag, "segments">>),
                 dt |-> [version |-> tree.version, message_type |-> tree.message_type,
                         declared_charset |-> tree.declared_charset]]
           ELSE IF x = <<tag, "segments">>
           THEN [refs |-> [i \in 1..n |-> SegId(tag, i)], dt |-> ""]
           ELSE IF x \in segs
           THEN [refs |-> Put(NoRefs, "fields", x \o <<"fields">>),
                 dt |-> [name |-> tree.segments[SegOf(x)].name,
                         rep_index |-> tree.segments[SegOf(x)].rep_index,
                         raw_line |-> tree.segments[SegOf(x)].raw_line]]
           ELSE IF x \in lists
           THEN [refs |-> [j \in 1..Len(tree.segments[SegOf(x)].fields) |->
                             FieldId(tag, SegOf(x), j)],
                 dt |-> ""]
           ELSE [refs |-> NoRefs,
                 dt |-> tree.segments[FieldOf(x)[1]].fields[FieldOf(x)[2]]]]

\* the tree an object reads as
ReadTree(h, root) ==
    LET sids == h[h[root].refs["segments"]].refs
    IN  ParsedMessage(
            [i \in 1..Len(sids) |->
               LET s == h[sids[i]]
                   fids == h[s.refs["fields"]].refs
               IN  Segment(s.dt.name, s.dt.rep_index,
                           [j \in 1..Len(fids) |-> h[fids[j]].dt], s.dt.raw_line)],
            h[root].dt.version, h[root].dt.message_type, h[root].dt.declared_charset)

\* for fld in seg.fields: ... _reparse_field(fld, new_raw); the Field
\* objects of a list are distinct, so each is assigned once
AnonFields(h, seg_name, fids, use_non_ascii, seed) ==
    [x \in DOMAIN h |->
       IF \E j \in 1..Len(fids) : fids[j] = x
       THEN LET fld == h[x].dt
                new_raw == NewRaw(seg_name, fld, use_non_ascii, seed + fld.field_num)
            IN  IF new_raw = None THEN h[x]
                ELSE [h[x] EXCEPT !.dt = reparse_field(fld, The(new_raw))]
       ELSE h[x]]

\* for seg in result.segments: ... seg.raw_line = _rebuild_raw_line(...) (232-314)
RECURSIVE AnonSegments(_, _, _, _, _)
AnonSegments(h, sids, i, use_non_ascii, seed) ==
    IF i > Len(sids) THEN h
    ELSE LET seg == h[sids[i]]
             fids == h[seg.refs["fields"]].refs
             h1 == AnonFields(h, seg.dt.name, fids, use_non_ascii, seed + i)
             fields == [j \in 1..Len(fids) |-> h1[fids[j]].dt]
         IN  AnonSegments(IF seg.dt.name \in {PID, NK1, GT1, IN1, MRG}
                          THEN [h1 EXCEPT ![sids[i]].dt.raw_line =
                                            rebuild_raw_line(seg.dt.name, fields)]
                          ELSE h,
                          sids, i + 1, use_non_ascii, seed)

\* mutant: result = parsed, the loop runs on the tree handed over
anonymize_message_InPlace(h, parsed, use_non_ascii, seed) ==
    [heap |-> AnonSegments(h, h[h[parsed].refs["segments"]].refs, 1, use_non_ascii, seed),
     root |-> parsed]

\* anonymize_message(parsed, use_non_ascii) (217-316): the heap afterwards
\* and the object returned
anonymize_message(h, parsed, use_non_ascii, seed) ==
    LET result == deepcopy(h, parsed, "anon")
        sids == result.heap[result.heap[result.root].refs["segments"]].refs
    IN  [heap |-> AnonSegments(result.heap, sids, 1, use_non_ascii, seed),
         root |-> result.root]

\* the number of segment lines of a text to anonymize
MaxAnonSegs == 2

\* code|...: a line of n fields, those of toks filled
SparseLine(code, n, toks) ==
    Line(code, [k \in 1..n |-> IF k \in DOMAIN toks THEN toks[k] ELSE <<>>])

AnonLines ==
    { SparseLine(PID, 23, (2 :> <<"1","2">> @@ 3 :> <<"3","4","^","^","^","A","~","5","B","6">> @@ 5 :> <<"T","a","m","m","^","K","^","A","^","X","~","T">> @@ 7 :> <<"1","9","8","0","0","1","0","1">> @@ 11 :> <<"S","t","r"," ","1","^","o","^","C","i","t","y","^","^","1","2","3">> @@ 13 :> <<"+","3","7","2"," ","5","^","x">> @@ 19 :> <<"A","1","b">> @@ 23 :> <<"R","a","e">>)),
      Line(PID, <<<<"1">>, <<"1","2">>>>),
      PID,
      SparseLine(NK1, 6, (1 :> <<"1">> @@ 2 :> <<"T","a","m","m","^","M">> @@ 3 :> <<"S","P","O">> @@ 4 :> <<"S","t","r","^","^","C","^","^","1">> @@ 5 :> <<"5","5","~","6","6">>)),
      SparseLine(GT1, 12, (3 :> <<"T","a","m","m">> @@ 8 :> <<"a","b","c","d","0","1","0","1">> @@ 12 :> <<"1","2","3","-","4","5">>)),
      SparseLine(IN1, 19, (1 :> <<"1">> @@ 16 :> <<"A","^","B">> @@ 18 :> <<"2","0","9">> @@ 19 :> <<"S">>)),
      SparseLine(MRG, 7, (1 :> <<"7","7","^","^","^","A">> @@ 7 :> <<"O","l","d","^","N">>)),
      Line(OBX, <<<<"1">>, <<"A",CARET,"B">>>>),
      Line(MSH, <<ENC, <<"X">>>>) }

\* the trees that are anonymized: what parse_hl7 builds from up to
\* MaxAnonSegs of these lines, which is the loop of 211-273 over the lines
AnonInputs ==
    { ParseLoop(ls, 1, EmptyCounts, ParsedMessage(<<>>, None, None, None)) :
        ls \in TuplesUpTo(AnonLines, MaxAnonSegs) \ {<<>>} }

\* the seeds of the random generator
Seeds == {0, 1, 7}

\* a caller holds a tree parse_hl7 returned
InitAnon ==
    /\ \E parsed \in AnonInputs :
         /\ snapshot = Some(parsed)
         /\ store = LoadTree(parsed, "p")
    /\ given = Some(<<"p">>)
    /\ anon = None
    /\ NoSession
    /\ NoResolution
    /\ NoSchema
    /\ NoCalls
    /\ NoWire
    /\ NoTools

\* anon = anonymize_message(given, use_non_ascii)
Anonymize(use_non_ascii, seed) ==
    /\ given # None
    /\ anon = None
    /\ LET r == anonymize_message(store, The(given), use_non_ascii, seed)
       IN  store' = r.heap /\ anon' = Some(r.root)
    /\ UNCHANGED <<given, snapshot>>
    /\ UNCHANGED outside_anonymization

NextAnon == \E use_non_ascii \in BOOLEAN : \E seed \in Seeds : Anonymize(use_non_ascii, seed)

AnonSpec == InitAnon /\ [][NextAnon]_vars

(***************************************************************************)
(* normalize_message and reconstruct_message on arbitrary texts            *)
(* (parser.py 47-116, mllp.py 11-13)                                       *)
(***************************************************************************)
\* reconstruct_message(parsed)
reconstruct_message(parsed) ==
    Join([i \in 1..Len(parsed.segments) |-> parsed.segments[i].raw_line], CR) \o <<CR>>

\* the length of the texts over WireChars
MaxText == 5

\* the number of pieces of the texts made of PlaceholderPieces
MaxPieces == 3

WireChars == {CR, LF, PIPE, "A", " "}

\* the pieces framing bytes and placeholder tokens are put together from
PlaceholderPieces ==
    { <<"<","V">>, <<"T",">">>, <<"<","V","T",">">>, <<"<","f","s",">">>,
      <<"<","C","r",">">>, <<"<","s","B",">">>, <<"<","E","B",">">>, <<VT>>,
      <<FS>>, <<"A">>, <<CR>>, <<"<","F">>,
      <<"S",">">>, <<"<","C">>, <<"R",">">> }

\* "".join(parts)
RECURSIVE Concat(_)
Concat(parts) == IF Len(parts) = 0 THEN <<>> ELSE parts[1] \o Concat(Tail(parts))

\* texts that take the boundary scan, the line-feed split, the framing
\* removal and the line-break repair
PathTexts ==
    { <<"P","I","D",PIPE,"A","M","S","H",PIPE,"A">>,
      <<"P","I","D",PIPE," ","M","S","H",PIPE,"A">>,
      <<"A"," ","Z","A","1",PIPE,"A">>,
      <<"Z","Z",PIPE,"A","Z","1",PIPE,"A">>,
      <<"P","I","D",PIPE,"A",LF,"M","S","H",PIPE," ">>,
      <<"A","A",PIPE,"A"," ",LF,"A">>,
      <<" ",VT,"A","A",PIPE,"A",FS,CR,LF>>,
      <<"A","A",PIPE,"A",CR,LF,LF,"A","A",PIPE,"A",PIPE,"A">>,
      <<"A","A",PIPE,"A",CR,LF,LF,PIPE,"A">> }

WireTexts ==
    TuplesUpTo(WireChars, MaxText)
    \cup { Concat(ps) : ps \in TuplesUpTo(PlaceholderPieces, MaxPieces) }
    \cup PathTexts

\* a caller holds a text
InitWire ==
    /\ input \in WireTexts
    /\ normalized = None
    /\ wire = None
    /\ NoSession
    /\ NoResolution
    /\ NoSchema
    /\ NoCalls
    /\ NoAnon
    /\ NoTools

\* normalized = normalize_message(input)
Normalize ==
    /\ normalized = None
    /\ normalized' = Some(normalize_message(input))
    /\ UNCHANGED <<input, wire>>
    /\ UNCHANGED outside_wiring

\* wire = reconstruct_message(parse_hl7(input))
Reconstruct ==
    /\ wire = None
    /\ parse_hl7(input) # None
    /\ wire' = Some(reconstruct_message(The(parse_hl7(input))))
    /\ UNCHANGED <<input, normalized>>
    /\ UNCHANGED outside_wiring

NextWire == Normalize \/ Reconstruct

WireSpec == InitWire /\ [][NextWire]_vars

(***************************************************************************)
(* The tools that address a field: format_field_value (formatter.py        *)
(* 496-521), hl7_get_field (mcp_server.py 232-304), hl7_transform          *)
(* (mcp_server.py 484-535)                                                 *)
(***************************************************************************)
\* \d+ on the ASCII characters of the model
IsDigits(s) == s # <<>> /\ \A i \in 1..Len(s) : s[i] \in Digits

\* $ matches at the end of the text and before a final newline
BeforeFinalNewline(s) ==
    IF Len(s) > 0 /\ s[Len(s)] = LF THEN SubSeq(s, 1, Len(s) - 1) ELSE s

\* re.match(r'^([A-Z][A-Z0-9]{1,2})(?:\[(\d+)\])?-(\d+)$', address) and the
\* three conversions after it: None, or seg_name, rep_idx and field_num
AddressMatch(address) ==
    LET a == BeforeFinalNewline(address)
        Named(n) ==
            /\ Len(a) > n
            /\ a[1] \in UpperLetters
            /\ \A i \in 2..n : a[i] \in UpperLetters \cup Digits
        Rest(n) == SubSeq(a, n + 1, Len(a))
        Plain(rest) == rest[1] = "-" /\ IsDigits(Tail(rest))
        Indexed(rest) ==
            /\ rest[1] = "["
            /\ Contains(rest, "]")
            /\ LET k == FirstIndex(rest, "]")
               IN  /\ IsDigits(SubSeq(rest, 2, k - 1))
                   /\ Len(rest) > k
                   /\ rest[k + 1] = "-"
                   /\ IsDigits(SubSeq(rest, k + 2, Len(rest)))
        fits == {n \in {2, 3} : Named(n) /\ (Plain(Rest(n)) \/ Indexed(Rest(n)))}
    IN  IF fits = {} THEN None
        ELSE LET n == CHOOSE n \in fits : TRUE
                 rest == Rest(n)
             IN  Some([seg_name |-> SubSeq(a, 1, n),
                       rep_idx |-> IF rest[1] = "["
                                   THEN Some(ToInt(SubSeq(rest, 2, FirstIndex(rest, "]") - 1)))
                                   ELSE None,
                       field_num |-> ToInt(Tail_(rest, FirstIndex(rest, "-") + 1))])

\* the two loops over parsed.segments and seg.fields (formatter.py 513-520,
\* mcp_server.py 268-274, 513-527): the positions <<i, j>> of the fields
\* numbered field_num in the segments named seg_name, with rep_index rep_idx
\* when one is given
Candidates(parsed, seg_name, rep_idx, field_num) ==
    {ij \in UNION {{<<i, j>> : j \in 1..Len(parsed.segments[i].fields)} :
                     i \in 1..Len(parsed.segments)} :
        /\ parsed.segments[ij[1]].name = seg_name
        /\ rep_idx # None => parsed.segments[ij[1]].rep_index = The(rep_idx)
        /\ parsed.segments[ij[1]].fields[ij[2]].field_num = field_num}

\* the first of them in the order of the loops, None when the loops end
\* without one
LocateField(parsed, seg_name, rep_idx, field_num) ==
    LET found == Candidates(parsed, seg_name, rep_idx, field_num)
    IN  IF found = {} THEN None
        ELSE Some(CHOOSE ij \in found :
                    \A other \in found :
                        \/ ij[1] < other[1]
                        \/ ij[1] = other[1] /\ ij[2] <= other[2])

\* format_field_value(parsed, field_spec): the raw_value, or None
format_field_value(parsed, field_spec) ==
    LET match == AddressMatch(field_spec)
    IN  IF match = None THEN None
        ELSE LET m == The(match)
                 at == LocateField(parsed, m.seg_name, m.rep_idx, m.field_num)
             IN  IF at = None THEN None
                 ELSE Some(parsed.segments[The(at)[1]].fields[The(at)[2]].raw_value)

\* re.match(r'^(.+)\.(\d+)$', address): None, or the base address and the
\* component index; '.' matches every character but the newline
DotMatch(address) ==
    LET a == BeforeFinalNewline(address)
        dots == {p \in 2..Len(a) :
                    /\ a[p] = "."
                    /\ IsDigits(SubSeq(a, p + 1, Len(a)))
                    /\ ~Contains(SubSeq(a, 1, p - 1), LF)}
    IN  IF dots = {} THEN None
        ELSE LET p == CHOOSE p \in dots : TRUE
             IN  Some([base_address |-> SubSeq(a, 1, p - 1),
                       comp_index |-> ToInt(SubSeq(a, p + 1, Len(a)))])

\* hl7_get_field(message, address). The reply is the JSON object without the
\* names, types and lengths that come from the schema tables (so the
\* IndexError of 289-290 for component 0 of a type without component
\* definitions is not modelled): an error, a
\* component {address, value} or a field {address, field_num, value,
\* raw_value}; raw_value is present when it differs from value (99-100).
\* This is the body after the call of parse_hl7 (245-304).
GetFieldOf(parsed, address) ==
    LET dot_match == DotMatch(address)
        base_address == IF dot_match = None THEN address ELSE The(dot_match).base_address
        addr_match == AddressMatch(base_address)
    IN  IF parsed = None THEN [kind |-> "error", error |-> "Could not parse message"]
        ELSE IF addr_match = None
        THEN [kind |-> "error", error |-> "Invalid address format", address |-> address]
        ELSE LET m == The(addr_match)
                 at == LocateField(The(parsed), m.seg_name, m.rep_idx, m.field_num)
             IN  IF at = None
                 THEN [kind |-> "error", error |-> "not found in message", address |-> address]
                 ELSE LET fld == The(parsed).segments[The(at)[1]].fields[The(at)[2]]
                      IN  IF dot_match # None
                          THEN LET comp_index == The(dot_match).comp_index
                               IN  [kind |-> "component",
                                    address |-> base_address \o <<".">> \o ToStr(comp_index),
                                    value |->
                                      IF fld.components # <<>> /\ comp_index <= Len(fld.components)
                                      THEN IF comp_index = 0
                                           THEN Some(fld.components[Len(fld.components)].value)
                                           ELSE Some(fld.components[comp_index].value)
                                      ELSE IF fld.components = <<>> /\ comp_index = 1
                                      THEN Some(fld.value)
                                      ELSE None]
                          ELSE [kind |-> "field", address |-> fld.address,
                                field_num |-> fld.field_num, value |-> fld.value,
                                raw_value |-> IF fld.raw_value # fld.value
                                              THEN Some(fld.raw_value) ELSE None]

\* hl7_get_field(message, address): parsed = parse_hl7(message) (244), then
\* the rest of the body
hl7_get_field(message_text, address) ==
    The({GetFieldOf(parsed, address) : parsed \in {parse_hl7(message_text)}})

InvalidAddress == <<"I","n","v","a","l","i","d"," ","a","d","d","r","e","s","s",":"," ">>
NotFound(address) == <<"F","i","e","l","d"," ">> \o address \o <<" ","n","o","t"," ","f","o","u","n","d">>
\* '; '.join(errors)
RECURSIVE JoinErrors(_)
JoinErrors(errors) ==
    IF Len(errors) = 0 THEN <<>>
    ELSE IF Len(errors) = 1 THEN errors[1]
    ELSE errors[1] \o <<";", " ">> \o JoinErrors(Tail(errors))

WarningsHead == <<"#"," ","W","a","r","n","i","n","g","s",":"," ">>

\* mutant: the line is rebuilt from the fields as they were before the change
ApplyChange_StaleLine(acc, item) ==
    LET address == item[1]
        new_value == item[2]
        addr_match == AddressMatch(address)
    IN  IF addr_match = None
        THEN [acc EXCEPT !.errors = Append(@, InvalidAddress \o address)]
        ELSE LET m == The(addr_match)
                 at == LocateField(acc.parsed, m.seg_name, m.rep_idx, m.field_num)
             IN  IF at = None
                 THEN [acc EXCEPT !.errors = Append(@, NotFound(address))]
                 ELSE LET i == The(at)[1]
                          j == The(at)[2]
                          seg == acc.parsed.segments[i]
                          fields == [seg.fields EXCEPT ![j] = reparse_field(@, new_value)]
                      IN  [acc EXCEPT !.parsed.segments[i] =
                              [seg EXCEPT !.fields = fields,
                                          !.raw_line = rebuild_raw_line(seg.name, seg.fields)]]

\* one turn of the loop over changes.items() (502-530); acc is [parsed, errors]
ApplyChange(acc, item) ==
    LET address == item[1]
        new_value == item[2]
        addr_match == AddressMatch(address)
    IN  IF addr_match = None
        THEN [acc EXCEPT !.errors = Append(@, InvalidAddress \o address)]
        ELSE LET m == The(addr_match)
                 at == LocateField(acc.parsed, m.seg_name, m.rep_idx, m.field_num)
             IN  IF at = None
                 THEN [acc EXCEPT !.errors = Append(@, NotFound(address))]
                 ELSE LET i == The(at)[1]
                          j == The(at)[2]
                          seg == acc.parsed.segments[i]
                          fields == [seg.fields EXCEPT ![j] = reparse_field(@, new_value)]
                      IN  [acc EXCEPT !.parsed.segments[i] =
                              [seg EXCEPT !.fields = fields,
                                          !.raw_line = rebuild_raw_line(seg.name, fields)]]

\* the loop over changes.items() (501-530); acc is [parsed, errors]
RECURSIVE TransformLoop(_, _, _)
TransformLoop(items, k, acc) ==
    IF k > Len(items) THEN acc
    ELSE The({TransformLoop(items, k + 1, next) : next \in {ApplyChange(acc, items[k])}})

\* the body of hl7_transform after the call of parse_hl7 (497-535): the text
\* returned, and the tree and the errors at the return
TransformOf(parsed, items) ==
    IF parsed = None
    THEN [parsed |-> None, errors |-> <<>>, result |-> <<"E","r","r","o","r",":"," ","C","o","u","l","d"," ","n","o","t"," ","p","a","r","s","e"," ","m","e","s","s","a","g","e">>]
    ELSE The({[parsed |-> Some(end.parsed), errors |-> end.errors,
               result |-> IF end.errors # <<>>
                          THEN WarningsHead \o JoinErrors(end.errors) \o <<LF>>
                                   \o reconstruct_message(end.parsed)
                          ELSE reconstruct_message(end.parsed)] :
                end \in {TransformLoop(items, 1, [parsed |-> The(parsed), errors |-> <<>>])}})

\* hl7_transform(message, changes): parsed = parse_hl7(message) (496), then
\* the rest of the body
hl7_transform(message_text, items) ==
    The({TransformOf(parsed, items) : parsed \in {parse_hl7(message_text)}})

\* the largest number of entries of a changes dict
MaxChanges == 2

\* the messages handed to the tools: a segment code that repeats, with a
\* field the first occurrence lacks; a header and a segment; a code that
\* repeats around another one; a text without a segment
ToolMessages ==
    { <<"P","I","D",PIPE,"A",CR,"P","I","D",PIPE,"B",PIPE,"C">>,
      <<"M","S","H",PIPE,CARET,TILDE,"\\",AMP,PIPE,"X",CR,"P","I","D",PIPE,"A",PIPE,"B">>,
      <<"P","I","D",PIPE,"A",CR,"O","B","X",PIPE,"B",CR,"P","I","D",PIPE,"C",PIPE,"D">>,
      <<>> }

\* addresses with and without occurrence index, and one the pattern rejects
ToolAddresses ==
    { <<"P","I","D","-","1">>,
      <<"P","I","D","-","2">>,
      <<"P","I","D","[","2","]","-","1">>,
      <<"P","I","D","[","2","]","-","2">>,
      <<"M","S","H","-","3">>,
      <<"p","i","d","-","1">> }

\* the addresses looked up: those, an explicit first occurrence, component
\* notation, and a final newline
ReadAddresses ==
    ToolAddresses \cup { <<"P","I","D","[","1","]","-","2">>,
      <<"P","I","D","-","1",".","1">>,
      <<"P","I","D","-","1",LF>>,
      <<"O","B","X","-","1">> }

\* the values written: empty, plain, and one with the field separator
ToolValues == { <<>>, <<"Z">>, <<"Z",PIPE,"Y">> }

\* the dicts of up to MaxChanges entries, as lists of items in insertion
\* order; the keys of a dict differ from each other
ChangeLists ==
    {cs \in TuplesUpTo(ToolAddresses \X ToolValues, MaxChanges) :
        \A k1, k2 \in 1..Len(cs) : k1 # k2 => cs[k1][1] # cs[k2][1]}

InitTools ==
    /\ message \in ToolMessages
    /\ changes \in ChangeLists
    /\ transformed = None
    /\ answer = None
    /\ NoSession
    /\ NoResolution
    /\ NoSchema
    /\ NoCalls
    /\ NoAnon
    /\ NoWire

\* hl7_transform(message, changes)
Transform ==
    /\ transformed = None
    /\ answer = None
    /\ transformed' = Some(hl7_transform(message, changes))
    /\ UNCHANGED <<message, changes, answer>>
    /\ UNCHANGED outside_tooling

\* format_field_value(parse_hl7(message), field_spec), as cli.py 72 calls it
\* on a message that parsed
FormatFieldValue(field_spec) ==
    /\ transformed = None
    /\ answer = None
    /\ changes = <<>>
    /\ parse_hl7(message) # None
    /\ answer' = Some([tool |-> "format_field_value", address |-> field_spec,
                       value |-> format_field_value(The(parse_hl7(message)), field_spec)])
    /\ UNCHANGED <<message, changes, transformed>>
    /\ UNCHANGED outside_tooling

\* hl7_get_field(message, address)
GetField(address) ==
    /\ transformed = None
    /\ answer = None
    /\ changes = <<>>
    /\ answer' = Some([tool |-> "hl7_get_field", address |-> address,
                       reply |-> hl7_get_field(message, address)])
    /\ UNCHANGED <<message, changes, transformed>>
    /\ UNCHANGED outside_tooling

NextTools ==
    \/ Transform
    \/ \E field_spec \in ReadAddresses : FormatFieldValue(field_spec)
    \/ \E address \in ReadAddresses : GetField(address)

ToolsSpec == InitTools /\ [][NextTools]_vars

(***************************************************************************)
(* Properties                                                              *)
(***************************************************************************)
Parsed == last.op = "parse" /\ phase = "parsed"

Header(seg) == seg.name = MSH

\* number of occurrences of character c in text s
Occurrences(s, c) == Cardinality({i \in 1..Len(s) : s[i] = c})

\* the text of s before the first occurrence of c (all of s when there is none)
BeforeFirst(s, c) ==
    SubSeq(s, 1, Cardinality({i \in 1..Len(s) : \A k \in 1..i : s[k] # c}))

Values(items) == [k \in 1..Len(items) |-> items[k].value]

\* parts are the pieces of text between its separators c, in order
IsPieces(text, c, parts) ==
    /\ Len(parts) = Occurrences(text, c) + 1
    /\ \A k \in 1..Len(parts) : ~Contains(parts[k], c)
    /\ Join(parts, c) = text

\* comps is the component decomposition of text, subcomponents included
IsComponents(text, comps) ==
    IF ~Contains(text, CARET) THEN comps = <<>>
    ELSE /\ IsPieces(text, CARET, Values(comps))
         /\ \A k \in 1..Len(comps) :
              /\ comps[k].index = k
              /\ IF ~Contains(comps[k].value, AMP) THEN comps[k].subcomponents = <<>>
                 ELSE IsPieces(comps[k].value, AMP, comps[k].subcomponents)

\* reps is the repetition decomposition of text, each with its own components
IsRepetitions(text, reps) ==
    IF ~Contains(text, TILDE) THEN reps = <<>>
    ELSE /\ IsPieces(text, TILDE, Values(reps))
         /\ \A k \in 1..Len(reps) :
              reps[k].index = k /\ IsComponents(reps[k].value, reps[k].components)

\* C1: Round trip: rebuilding a segment line that needed no normalization
\* repair from the fields parse_hl7 produced gives the line back exactly,
\* for any number of fields including none.
C1_RoundTrip ==
    (Parsed /\ normalize_message(raw) = <<raw>>) =>
        \A i \in 1..Len(Segs) : rebuild_raw_line(Segs[i].name, Segs[i].fields) = raw

\* C2: Idempotence: reparse_field(f, f.raw_value) leaves value, components and
\* repetitions of every field as they were, header fields 1 and 2 included.
C2_Idempotent ==
    phase = "parsed" =>
        \A i \in 1..Len(Segs) : \A j \in 1..Len(Segs[i].fields) :
            LET f == Segs[i].fields[j]
                g == reparse_field(f, f.raw_value)
            IN  g.value = f.value /\ g.components = f.components
                /\ g.repetitions = f.repetitions

\* C3: Diff total invariant: total_fields = identical + modified + a_only +
\* b_only in the summary of every report, also when a side has no segments.
C3_TotalInvariant ==
    phase = "diffed" =>
        LET s == The(report).summary
        IN  s.total_fields = s.identical + s.modified + s.a_only + s.b_only

C3_Witness ==
    /\ phase = "diffed"
    /\ The(report).summary.modified > 0
    /\ The(report).summary.a_only > 0
    /\ The(report).summary.b_only > 0

C3_WitnessEmptySide ==
    /\ phase = "diffed"
    /\ The(left).segments = <<>>
    /\ The(report).summary.total_fields > 0

\* C4: Derived state matches raw_value: right after reparse_field(f, x), at the
\* end of any sequence of such calls, raw_value is x, value is x before the first
\* repetition separator, and components and repetitions are exactly the
\* decomposition of x; all are empty when x is empty.
C4_DerivedMatchesRaw ==
    last.op = "reparse" =>
        LET f == Segs[last.seg].fields[last.fld]
            x == last.new_raw
        IN  /\ f.raw_value = x
            /\ f.value = BeforeFirst(x, TILDE)
            /\ IsRepetitions(x, f.repetitions)
            /\ IsComponents(f.value, f.components)
            /\ x = <<>> => (f.value = <<>> /\ f.components = <<>> /\ f.repetitions = <<>>)

\* a later call, with a text without separators, on a field that had repetitions
\* and was changed before: its line was regenerated from another text
C4_Witness ==
    /\ last.op = "reparse"
    /\ last.new_raw = <<"B">>
    /\ Segs[last.seg].raw_line # The(orig).segments[last.seg].raw_line
    /\ Segs[last.seg].raw_line # rebuild_raw_line(Segs[last.seg].name, Segs[last.seg].fields)
    /\ The(orig).segments[last.seg].fields[last.fld].repetitions # <<>>
    /\ Segs[last.seg].fields[last.fld].repetitions = <<>>

\* C5: Repetition indexing: rep_index of each segment is the number of segments
\* of the same code at or before it, and no two segments share (code, rep_index).
C5_RepIndex ==
    Parsed =>
        /\ \A i \in 1..Len(Segs) :
             Segs[i].rep_index = Cardinality({k \in 1..i : Segs[k].name = Segs[i].name})
        /\ \A i, k \in 1..Len(Segs) :
             (Segs[i].name = Segs[k].name /\ Segs[i].rep_index = Segs[k].rep_index) => i = k

C5_Witness ==
    /\ Parsed
    /\ Len(Segs) = 4
    /\ Segs[1].name = OBX /\ Segs[2].name = MSH /\ Segs[3].name = OBX /\ Segs[4].name = OBX
    /\ Segs[1].rep_index = 1 /\ Segs[3].rep_index = 2 /\ Segs[4].rep_index = 3

\* the fields of segment i that went through the decomposition: all but the
\* header's fields 1 and 2 as parse_hl7 builds them
Decomposed(i) ==
    {j \in 1..Len(Segs[i].fields) :
        \/ ~(Header(Segs[i]) /\ Segs[i].fields[j].field_num <= 2)
        \/ (last.op \in {"reparse", "rebuild"} /\ last.seg = i /\ last.fld = j)}

\* C6: Component convention: a text without component separator has zero
\* components; with k >= 1 separators it has k+1 components, indexed in order,
\* whose values joined by the separator give the text; the same rule gives the
\* subcomponents of each component.
C6_ComponentConvention ==
    phase = "parsed" =>
        \A i \in 1..Len(Segs) : \A j \in Decomposed(i) :
            LET f == Segs[i].fields[j]
            IN  /\ IsComponents(f.value, f.components)
                /\ \A k \in 1..Len(f.repetitions) :
                     IsComponents(f.repetitions[k].value, f.repetitions[k].components)

C6_Witness ==
    /\ Parsed
    /\ \E i \in 1..Len(Segs) : \E j \in Decomposed(i) :
         LET f == Segs[i].fields[j]
         IN  /\ f.raw_value = <<"A",CARET,"B",AMP,"C">>
             /\ Len(f.components) = 2
             /\ f.components[1].subcomponents = <<>>
             /\ f.components[2].subcomponents = << <<"B">>, <<"C">> >>
    /\ \E i \in 1..Len(Segs) : \E j \in Decomposed(i) :
         Segs[i].fields[j].raw_value = <<"A">> /\ Segs[i].fields[j].components = <<>>

\* C7: Header fields 1 and 2: field 1 of every header segment has value and
\* raw_value equal to the field separator; field 2 has value and raw_value equal
\* to token 1 of the line, with no components and no repetitions.
C7_HeaderFields ==
    Parsed =>
        \A i \in 1..Len(Segs) : Header(Segs[i]) =>
            LET fields == Segs[i].fields
                tokens == Split(Segs[i].raw_line, PIPE)
            IN  /\ Len(fields) >= 1
                /\ fields[1].field_num = 1
                /\ fields[1].value = <<PIPE>> /\ fields[1].raw_value = <<PIPE>>
                /\ Len(tokens) > 1 =>
                     /\ Len(fields) >= 2
                     /\ fields[2].field_num = 2
                     /\ fields[2].value = tokens[2] /\ fields[2].raw_value = tokens[2]
                     /\ fields[2].components = <<>> /\ fields[2].repetitions = <<>>

C7_Witness ==
    /\ Parsed
    /\ \E i \in 1..Len(Segs) :
         /\ Header(Segs[i])
         /\ Len(Segs[i].fields) >= 2
         /\ Segs[i].fields[2].raw_value = ENC
         /\ Segs[i].fields[2].repetitions = <<>>

\* C8: Repetition decomposition: a token with k >= 1 repetition separators gives
\* k+1 repetitions, indexed in order, whose values joined by the separator give
\* raw_value, each with its own components; value and components of the field
\* are those of repetition 1; a token without the separator gives no repetitions
\* and value = raw_value.
C8_Repetitions ==
    Parsed =>
        \A i \in 1..Len(Segs) : \A j \in Decomposed(i) :
            LET f == Segs[i].fields[j]
            IN  /\ IsRepetitions(f.raw_value, f.repetitions)
                /\ IF Contains(f.raw_value, TILDE)
                   THEN /\ f.value = f.repetitions[1].value
                        /\ f.components = f.repetitions[1].components
                   ELSE f.value = f.raw_value

C8_Witness ==
    /\ Parsed
    /\ \E i \in 1..Len(Segs) : \E j \in Decomposed(i) :
         LET f == Segs[i].fields[j]
         IN  /\ f.raw_value = <<"A",TILDE,"B",CARET,"C">>
             /\ Len(f.repetitions) = 2
             /\ f.value = <<"A">> /\ f.components = <<>>
             /\ Len(f.repetitions[2].components) = 2

\* {code}[{rep_index}]-{field_num} when rep_index > 1, else {code}-{field_num}
AddressConvention(code, rep_index, field_num) ==
    code \o (IF rep_index > 1 THEN <<"[">> \o ToStr(rep_index) \o <<"]">> ELSE <<>>)
         \o <<"-">> \o ToStr(field_num)

\* C9: Address convention: every Field.address set by parse_hl7 and every
\* FieldDiff.address set by diff_messages follows the convention, for segments
\* of every code including the header code.
C9_Addresses ==
    /\ Parsed =>
         \A i \in 1..Len(Segs) : \A j \in 1..Len(Segs[i].fields) :
             Segs[i].fields[j].address =
                 AddressConvention(Segs[i].name, Segs[i].rep_index, Segs[i].fields[j].field_num)
    /\ phase = "diffed" =>
         \A i \in 1..Len(The(report).segment_diffs) :
             LET sd == The(report).segment_diffs[i]
             IN  \A j \in 1..Len(sd.field_diffs) :
                     sd.field_diffs[j].address =
                         AddressConvention(sd.name, sd.rep_index, sd.field_diffs[j].field_num)

\* the header segments of the tree that have a field numbered n
HeadersWith(n) ==
    {i \in 1..Len(Segs) : Header(Segs[i]) /\ FindField(Segs[i].fields, n) # None}

\* field n of the last header segment that has one
HeaderField(n) ==
    LET i == CHOOSE i \in HeadersWith(n) : \A k \in HeadersWith(n) : k <= i
    IN  The(FindField(Segs[i].fields, n))

C10_WitnessNoHeader ==
    /\ Parsed
    /\ Len(Segs) > 0
    /\ \A i \in 1..Len(Segs) : ~Header(Segs[i])

\* all field diffs of a report, as the set of their positions <<segment diff, field diff>>
FieldDiffsOf(rep) ==
    UNION {{<<i, j>> : j \in 1..Len(rep.segment_diffs[i].field_diffs)} :
             i \in 1..Len(rep.segment_diffs)}

\* C11: Diff of identical trees: diff_messages(A, deep copy of A) reports
\* modified = 0, a_only = 0, b_only = 0, identical = total_fields, and every
\* segment diff has status identical.
C11_IdenticalTrees ==
    (phase = "diffed" /\ right = left) =>
        LET rep == The(report)
        IN  /\ rep.summary.modified = 0
            /\ rep.summary.a_only = 0
            /\ rep.summary.b_only = 0
            /\ rep.summary.identical = rep.summary.total_fields
            /\ \A i \in 1..Len(rep.segment_diffs) : rep.segment_diffs[i].status = "identical"

\* a tree compared with its copy, one of its fields with repetitions
C11_Witness ==
    /\ phase = "diffed" /\ right = left
    /\ The(report).summary.total_fields >= 2
    /\ \E p \in FieldDiffsOf(The(report)) :
         LET fd == The(report).segment_diffs[p[1]].field_diffs[p[2]]
         IN  The(fd.field_a).repetitions # <<>>

\* a tree of four segments compared with its copy
C11_WitnessSegments ==
    /\ phase = "diffed" /\ right = left
    /\ Len(The(report).segment_diffs) = 4

\* the positions <<segment, field>> whose raw_value differs between two trees
\* of the same shape
ChangedFields(a, b) ==
    UNION {{<<i, j>> : j \in {j \in 1..Len(a.segments[i].fields) :
                                a.segments[i].fields[j].raw_value #
                                b.segments[i].fields[j].raw_value}} :
             i \in 1..Len(a.segments)}

\* the report compares the tree as parsed with the edited tree, in which one
\* field got a different raw text and the line of its segment was regenerated
SingleEdit ==
    /\ phase = "diffed" /\ left = orig /\ right = msg
    /\ Cardinality(ChangedFields(The(orig), The(msg))) = 1
    /\ \A p \in ChangedFields(The(orig), The(msg)) :
         Segs[p[1]].raw_line = rebuild_raw_line(Segs[p[1]].name, Segs[p[1]].fields)

\* the field diffs of a report that are not identical
NotIdentical(rep) ==
    {p \in FieldDiffsOf(rep) : rep.segment_diffs[p[1]].field_diffs[p[2]].status # "identical"}

\* C12: Single edit shows as a single modification: if B is a copy of A in which
\* only field f was changed with reparse_field to a different raw text (then
\* rebuild_raw_line on its segment), diff_messages(A, B) has exactly one field
\* diff that is not identical; it has status modified, the address of f,
\* value_a the original raw_value and value_b the new raw text, and
\* identical = total_fields - 1.
C12_SingleEdit ==
    SingleEdit =>
        LET rep == The(report)
            e == CHOOSE p \in ChangedFields(The(orig), The(msg)) : TRUE
            f == The(orig).segments[e[1]].fields[e[2]]
        IN  /\ Cardinality(NotIdentical(rep)) = 1
            /\ \A p \in NotIdentical(rep) :
                 LET fd == rep.segment_diffs[p[1]].field_diffs[p[2]]
                 IN  /\ fd.status = "modified"
                     /\ fd.address = f.address
                     /\ fd.value_a = Some(f.raw_value)
                     /\ fd.value_b = Some(Segs[e[1]].fields[e[2]].raw_value)
            /\ rep.summary.identical = rep.summary.total_fields - 1

\* the same with the address the convention gives f instead of f.address
C12_SingleEditConventionAddress ==
    SingleEdit =>
        LET rep == The(report)
            e == CHOOSE p \in ChangedFields(The(orig), The(msg)) : TRUE
            seg == The(orig).segments[e[1]]
            f == seg.fields[e[2]]
        IN  /\ Cardinality(NotIdentical(rep)) = 1
            /\ \A p \in NotIdentical(rep) :
                 LET fd == rep.segment_diffs[p[1]].field_diffs[p[2]]
                 IN  /\ fd.status = "modified"
                     /\ fd.address = AddressConvention(seg.name, seg.rep_index, f.field_num)
                     /\ fd.value_a = Some(f.raw_value)
                     /\ fd.value_b = Some(Segs[e[1]].fields[e[2]].raw_value)
            /\ rep.summary.identical = rep.summary.total_fields - 1

\* the segment keys (code, rep_index) of a tree
KeysOf(tree) == {<<tree.segments[i].name, tree.segments[i].rep_index>> : i \in 1..Len(tree.segments)}

\* the segment diffs of a report for key k
DiffsFor(rep, k) ==
    {i \in 1..Len(rep.segment_diffs) :
        <<rep.segment_diffs[i].name, rep.segment_diffs[i].rep_index>> = k}

\* the report has exactly one segment diff for key k; it has status side and
\* one field diff per field of seg, in order, of status side, with the field's
\* raw_value on that side and nothing on the other
OneSided(rep, k, seg, side) ==
    /\ Cardinality(DiffsFor(rep, k)) = 1
    /\ \A i \in DiffsFor(rep, k) :
         LET sd == rep.segment_diffs[i]
         IN  /\ sd.status = side
             /\ Len(sd.field_diffs) = Len(seg.fields)
             /\ \A j \in 1..Len(seg.fields) :
                  LET fd == sd.field_diffs[j]
                      own == IF side = "a_only" THEN fd.value_a ELSE fd.value_b
                      other == IF side = "a_only" THEN fd.value_b ELSE fd.value_a
                  IN  /\ fd.status = side
                      /\ fd.field_num = seg.fields[j].field_num
                      /\ own = Some(seg.fields[j].raw_value)
                      /\ other = None

\* the fields of tree x that tree y does not have: those of the segments whose
\* key y lacks, and, in a segment of a shared key, those whose number y's
\* segment lacks
FieldsMissingIn(x, y) ==
    UNION {{<<i, j>> : j \in {j \in 1..Len(x.segments[i].fields) :
                \A k \in 1..Len(y.segments) :
                    (y.segments[k].name = x.segments[i].name
                     /\ y.segments[k].rep_index = x.segments[i].rep_index)
                    => \A m \in 1..Len(y.segments[k].fields) :
                          y.segments[k].fields[m].field_num #
                          x.segments[i].fields[j].field_num}} :
             i \in 1..Len(x.segments)}

\* C13: One-sided segment: for a segment key present in A and absent from B the
\* report has exactly one segment diff, of status a_only, with exactly one field
\* diff per field of A's segment, each of status a_only with value_a the
\* field's raw_value and value_b absent; symmetrically b_only for a key present
\* only in B; the summary's a_only and b_only counts are the field counts of
\* those segments (plus the fields one side lacks in a shared segment).
C13_OneSidedSegment ==
    phase = "diffed" =>
        LET rep == The(report)
            a == The(left)
            b == The(right)
        IN  /\ \A i \in 1..Len(a.segments) :
                 LET k == <<a.segments[i].name, a.segments[i].rep_index>>
                 IN  k \notin KeysOf(b) => OneSided(rep, k, a.segments[i], "a_only")
            /\ \A i \in 1..Len(b.segments) :
                 LET k == <<b.segments[i].name, b.segments[i].rep_index>>
                 IN  k \notin KeysOf(a) => OneSided(rep, k, b.segments[i], "b_only")
            /\ rep.summary.a_only = Cardinality(FieldsMissingIn(a, b))
            /\ rep.summary.b_only = Cardinality(FieldsMissingIn(b, a))

\* a key only in A and a key only in B, next to a shared key; a one-sided
\* segment has an empty field
C13_Witness ==
    /\ phase = "diffed"
    /\ KeysOf(The(left)) \ KeysOf(The(right)) # {}
    /\ KeysOf(The(right)) \ KeysOf(The(left)) # {}
    /\ KeysOf(The(left)) \cap KeysOf(The(right)) # {}
    /\ The(report).summary.a_only >= 2
    /\ The(report).summary.b_only >= 1

\* a segment present only in A that has an empty field
C13_WitnessEmptyField ==
    /\ phase = "diffed"
    /\ \E i \in 1..Len(The(left).segments) :
         /\ <<The(left).segments[i].name, The(left).segments[i].rep_index>>
              \notin KeysOf(The(right))
         /\ \E j \in 1..Len(The(left).segments[i].fields) :
              The(left).segments[i].fields[j].raw_value = <<>>

\* C14: diff_messages has no failure path: every call on two trees returns a
\* report, also when the key sets of the trees are disjoint and when one side
\* or both have no segments.
C14_NoFailure ==
    (left # None /\ right # None) => (phase = "diffed" /\ report # None)

\* both trees have segments and share no key
C14_Witness ==
    /\ phase = "diffed" /\ report # None
    /\ KeysOf(The(left)) # {} /\ KeysOf(The(right)) # {}
    /\ KeysOf(The(left)) \cap KeysOf(The(right)) = {}

\* one tree has no segments, the other has
C14_WitnessEmptySide ==
    /\ phase = "diffed" /\ report # None
    /\ The(right).segments = <<>> /\ The(left).segments # <<>>

\* neither tree has segments
C14_WitnessBothEmpty ==
    /\ phase = "diffed" /\ report # None
    /\ The(right).segments = <<>> /\ The(left).segments = <<>>

AllPlaceholders == {TokVT, TokSB, TokFS, TokEB, TokCR}

\* the text is made of white space, framing bytes and placeholder tokens only
RECURSIVE IsBlank(_)
IsBlank(s) ==
    \/ s = <<>>
    \/ s[1] \in WhiteSpace /\ IsBlank(Tail(s))
    \/ \E tok \in AllPlaceholders : MatchTok(s, tok) /\ IsBlank(Tail_(s, Len(tok) + 1))

\* the text holds a framing byte or a placeholder token somewhere
HasFraming(s) ==
    \E i \in 1..Len(s) :
        s[i] \in {VT, FS} \/ \E tok \in AllPlaceholders : MatchTok(Tail_(s, i), tok)

\* the lines of a text, at CR and at LF
LinesOf(s) == Split([i \in 1..Len(s) |-> IF s[i] = LF THEN CR ELSE s[i]], CR)

\* a line that starts with a segment code: three capitals or digits, then the
\* end of the line or a field separator
Recognizable(line) ==
    /\ Len(line) >= 3
    /\ \A i \in 1..3 : line[i] \in UpperLetters \cup Digits
    /\ Len(line) > 3 => line[4] = PIPE

\* no line of the text is a recognizable segment
Nonsense(s) == \A i \in 1..Len(LinesOf(s)) : ~Recognizable(LinesOf(s)[i])

\* C15 as claimed: normalize_message returns the empty list when the input is
\* empty, whitespace-only, framing-only or nonsense text with no recognizable
\* segment, and parse_hl7 then reports an absent message.
C15_NothingForNonsense ==
    (last.op = "parse" /\ (IsBlank(raw) \/ Nonsense(raw))) =>
        (normalize_message(raw) = <<>> /\ msg = None)

\* C15 as amended: normalize_message returns the empty list when the input is
\* empty, whitespace-only or framing-only, and parse_hl7 then reports an absent
\* message; text with other characters and no framing is not rejected, also
\* when it is nonsense: it gives at least one line and a present message,
\* without metadata when no line is a recognizable segment.
C15_NothingForBlank ==
    last.op = "parse" =>
        /\ IsBlank(raw) => (normalize_message(raw) = <<>> /\ msg = None)
        /\ (~IsBlank(raw) /\ ~HasFraming(raw)) =>
             (normalize_message(raw) # <<>> /\ msg # None)
        /\ (~IsBlank(raw) /\ ~HasFraming(raw) /\ Nonsense(raw)) =>
             (The(msg).version = None /\ The(msg).message_type = None)

\* a text of framing bytes and placeholders only was parsed
C15_Witness ==
    /\ last.op = "parse"
    /\ raw # <<>> /\ IsBlank(raw) /\ HasFraming(raw)
    /\ msg = None

\* plain words were parsed
C15_WitnessNonsense ==
    /\ last.op = "parse"
    /\ ~IsBlank(raw) /\ ~HasFraming(raw) /\ Nonsense(raw) /\ Contains(raw, " ")
    /\ msg # None /\ Len(The(msg).segments) = 1

\* the segment code of a line: its text before the first field separator
CodeOf(line) == BeforeFirst(line, PIPE)

\* the fragments whose code has at least 2 characters, in their order
LongCoded(lines) == SelectSeq(lines, LAMBDA l : Len(CodeOf(l)) >= 2)

\* C16: Short segment code is skipped without harm: a fragment whose code has
\* fewer than 2 characters produces no segment; every other fragment is still
\* parsed, in its original relative order, with the rep_index and fields it
\* would have if the skipped fragment were not there.
C16_ShortCodeSkipped ==
    Parsed =>
        LET kept == LongCoded(normalize_message(raw))
        IN  /\ Len(Segs) = Len(kept)
            /\ \A i \in 1..Len(kept) :
                 Segs[i].raw_line = kept[i] /\ Len(Segs[i].name) >= 2
            /\ The(msg) = ParseLoop(kept, 1, EmptyCounts, ParsedMessage(<<>>, None, None, None))

\* a skipped fragment between two segments of one code, and another one last
C16_Witness ==
    /\ Parsed
    /\ LET lines == normalize_message(raw)
       IN  /\ Len(lines) = 4
           /\ Len(CodeOf(lines[1])) >= 2 /\ Len(CodeOf(lines[2])) < 2
           /\ Len(CodeOf(lines[3])) >= 2 /\ Len(CodeOf(lines[4])) < 2
           /\ CodeOf(lines[1]) = CodeOf(lines[3])
    /\ Len(Segs) = 2
    /\ Segs[2].rep_index = 2

Generations == {V23, V25, V28}

\* <major>.<minor> or <major>.<minor>.<patch>, one digit each but the patch
IsVersion(v) ==
    /\ Len(v) >= 3
    /\ v[1] \in Digits /\ v[2] = "." /\ v[3] \in Digits
    /\ Len(v) > 3 => (v[4] = "." /\ Len(v) > 4 /\ \A i \in 5..Len(v) : v[i] \in Digits)

\* the generation of a <major>.<minor>
GenerationOf(mm) ==
    IF mm \in {V23, V24} THEN V23
    ELSE IF mm \in {V25, V26, V27} THEN V25
    ELSE IF mm = V28 THEN V28
    ELSE V25

\* the token, stripped, starts with none of the known <major>.<minor>
Unknown(v) == \A mm \in {V23, V24, V25, V26, V27, V28} : ~StartsWith(v, mm)

\* C18: Version resolution: resolve_version returns one of 2.3, 2.5, 2.8 for
\* every token; it resolves by major.minor prefix, so <major>.<minor>.<patch>
\* resolves like <major>.<minor> (2.3 and 2.4 to 2.3; 2.5, 2.6 and 2.7 to 2.5;
\* 2.8 to 2.8); a missing, empty or unknown token resolves to 2.5.
C18_VersionResolution ==
    generation # None =>
        /\ The(generation) \in Generations
        /\ (token = None \/ The(token) = <<>>) => The(generation) = V25
        /\ token # None =>
             LET v == Strip(The(token))
             IN  /\ IsVersion(v) =>
                      /\ The(generation) = GenerationOf(SubSeq(v, 1, 3))
                      /\ The(generation) = resolve_version(Some(SubSeq(v, 1, 3)))
                 /\ Unknown(v) => The(generation) = V25

\* the same but for the tokens 2.4.<patch>
C18_ButPatched24 ==
    generation # None =>
        /\ The(generation) \in Generations
        /\ (token = None \/ The(token) = <<>>) => The(generation) = V25
        /\ token # None =>
             LET v == Strip(The(token))
             IN  /\ (IsVersion(v) /\ ~(StartsWith(v, V24) /\ Len(v) > 3)) =>
                      /\ The(generation) = GenerationOf(SubSeq(v, 1, 3))
                      /\ The(generation) = resolve_version(Some(SubSeq(v, 1, 3)))
                 /\ Unknown(v) => The(generation) = V25

\* the generations older than g
Older(g) == IF g = "v28" THEN {"v23", "v25"} ELSE IF g = "v25" THEN {"v23"} ELSE {}

\* what the table of generation g reads as
TableView(h, ts, g) == View(h, The(ts[g]))

\* what the tables read as once the module body has run
LoadedAsWritten ==
    LET t23 == TableView(heap, tables, "v23")
        t25 == TableView(heap, tables, "v25")
        t28 == TableView(heap, tables, "v28")
    IN  /\ DOMAIN t23 = {"OBX", "ERR"}
        /\ DOMAIN t23["OBX"] = {"3", "5"} /\ t23["OBX"]["3"] = "CE" /\ t23["ERR"]["1"] = "CM"
        /\ DOMAIN t25 = {"OBX", "ERR", "SFT"}
        /\ DOMAIN t25["OBX"] = {"3", "5", "18"}
        /\ t25["OBX"]["3"] = "CE" /\ t25["ERR"]["1"] = "ELD"
        /\ DOMAIN t28["OBX"] = {"3", "5", "18", "20"}
        /\ t28["OBX"]["3"] = "CWE" /\ t28["OBX"]["5"] = "*"

\* C17: Schema generation isolation: each newer generation table is a deep
\* copy, so no addition, override or type narrowing applied to a newer
\* generation, at load time or to the live tables afterwards, is observable
\* through an older generation's table: a statement on the table of one
\* generation leaves what every older table reads as unchanged, and after
\* loading the fields added for 2.8 are absent in 2.5 and the narrowed type
\* codes keep their old value in 2.5.
C17_Isolation ==
    [][/\ \A g \in Older(op'.gen) :
            tables[g] # None =>
                /\ tables'[g] = tables[g]
                /\ TableView(heap', tables', g) = TableView(heap, tables, g)
       /\ (load' = "loaded" /\ live' = 0) => LoadedAsWritten']_vars

\* after loading, a field definition of the 2.8 table was changed in place and
\* a field was added to a segment of the 2.5 table
C17_Witness ==
    /\ load = "loaded" /\ live = 2
    /\ op.gen = "v25" /\ op.kind = "field"
    /\ TableView(heap, tables, "v28")["OBX"]["3"] = "ST"
    /\ TableView(heap, tables, "v25")["OBX"]["3"] = "CE"
    /\ "20" \in DOMAIN TableView(heap, tables, "v25")["OBX"]
    /\ "20" \notin DOMAIN TableView(heap, tables, "v23")["OBX"]

\* the lines among the first k of a call that count for the segment code n
Counted(frame, k, n) ==
    Cardinality({j \in 1..k : /\ Split(frame.segments_raw[j], PIPE)[1] = n
                              /\ Len(n) >= 2})

\* the segment codes a call has met or counted
CodesOf(c) ==
    {Split(calls[c].segments_raw[j], PIPE)[1] : j \in 1..Len(calls[c].segments_raw)}
    \cup DOMAIN counters[CountsOwner(c)]

\* C19: however the steps of several parse_hl7 calls interleave, no call
\* raises, a call that has returned returned what parse_hl7 returns for its
\* text alone (segments, rep_index values, metadata), and while a call is in
\* its loop its counters count the lines of that call only.
C19_NoCrossing ==
    \A c \in DOMAIN calls :
        /\ calls[c].pc # "raised"
        /\ calls[c].pc = "done" => calls[c].result = parse_hl7(calls[c].text)
        /\ calls[c].pc \in {"count", "build"} =>
             \A n \in CodesOf(c) :
                 CountOf(counters[CountsOwner(c)], n)
                   = Counted(calls[c], IF calls[c].pc = "build" THEN calls[c].i
                                       ELSE calls[c].i - 1, n)

\* a segment of the tree with a rep_index above 1
Repeats(result) ==
    result # None /\ \E k \in 1..Len(The(result).segments) : The(result).segments[k].rep_index > 1

\* two calls with different texts have both returned trees with a repeated
\* segment code
C19_Witness ==
    \E c \in DOMAIN calls : \E d \in DOMAIN calls :
        /\ c # d
        /\ calls[c].text # calls[d].text
        /\ calls[c].pc = "done" /\ calls[d].pc = "done"
        /\ Repeats(calls[c].result) /\ Repeats(calls[d].result)

\* two calls are both between the increment and the read of a counter that
\* stands at 2
C19_WitnessInterleaved ==
    \E c \in DOMAIN calls : \E d \in DOMAIN calls :
        /\ c # d
        /\ calls[c].pc = "build" /\ calls[d].pc = "build"
        /\ \E n \in CodesOf(c) \cap CodesOf(d) :
             /\ CountOf(counters[CountsOwner(c)], n) = 2
             /\ CountOf(counters[CountsOwner(d)], n) = 2

\* the tree the caller handed over, as it reads now
GivenTree == ReadTree(store, The(given))

\* the tree anonymize_message returned
AnonTree == ReadTree(store, The(anon))

\* same number of segments, same codes in the same order, same number of
\* fields in each segment
SameStructure(a, b) ==
    /\ Len(a.segments) = Len(b.segments)
    /\ \A i \in 1..Len(a.segments) :
         /\ a.segments[i].name = b.segments[i].name
         /\ Len(a.segments[i].fields) = Len(b.segments[i].fields)

\* C20: anonymize_message works on a copy.  The tree handed over reads
\* after the call as it read before (every raw_line, and every field's
\* raw_value, value, components and repetitions), the tree returned shares
\* no object with it, and the tree returned has the same number of segments,
\* the same segment codes in the same order and the same number of fields in
\* each segment.
C20_WorksOnCopy ==
    given # None =>
        /\ GivenTree = The(snapshot)
        /\ anon # None =>
             /\ Reach(store, {The(anon)}, {}) \cap Reach(store, {The(given)}, {}) = {}
             /\ SameStructure(AnonTree, GivenTree)

\* a tree with a patient segment was anonymized: a field of that segment
\* with repetitions and components, and its raw_line, differ in the result
C20_Witness ==
    /\ given # None /\ anon # None
    /\ \E i \in 1..Len(GivenTree.segments) :
         /\ GivenTree.segments[i].name = PID
         /\ AnonTree.segments[i].raw_line # GivenTree.segments[i].raw_line
         /\ \E j \in 1..Len(GivenTree.segments[i].fields) :
              /\ Len(GivenTree.segments[i].fields[j].repetitions) > 1
              /\ Len(GivenTree.segments[i].fields[j].components) > 1
              /\ AnonTree.segments[i].fields[j].raw_value
                   # GivenTree.segments[i].fields[j].raw_value
              /\ AnonTree.segments[i].fields[j].components
                   # GivenTree.segments[i].fields[j].components

\* what the claim compares of a tree: per segment its code, its rep_index
\* and the raw_values of its fields
Outline(parsed) ==
    [i \in 1..Len(parsed.segments) |->
       <<parsed.segments[i].name, parsed.segments[i].rep_index,
         RawValues(parsed.segments[i].fields)>>]

\* the raw lines in order, each followed by the segment separator
LinesOnWire(parsed) ==
    Concat([i \in 1..Len(parsed.segments) |-> parsed.segments[i].raw_line \o <<CR>>])

\* C21: for every message p that parse_hl7 produced, reconstruct_message(p)
\* is the raw lines of p in order, each followed by the segment separator,
\* and parsing that text yields a message with the same segment codes,
\* rep_index values and field raw_values as p.
C21_WireReconstruction ==
    wire # None =>
        LET p == The(parse_hl7(input))
            again == parse_hl7(The(wire))
        IN  /\ The(wire) = LinesOnWire(p)
            /\ again # None
            /\ Outline(The(again)) = Outline(p)

\* what holds of the wire text: for a message with at least one segment it
\* is the raw lines in order, each followed by the segment separator
C21_ButTextOnly ==
    wire # None =>
        LET p == The(parse_hl7(input))
        IN  Len(p.segments) > 0 => The(wire) = LinesOnWire(p)

\* content as it stands before the splitting (parser.py 53-72)
Cleaned(raw_text) ==
    LET c1 == StripTrailingFS(StripLeadingVT(raw_text))
        c2 == SubTokens(c1, {TokVT, TokSB}, <<>>)
        c3 == SubTokens(c2, {TokFS, TokEB}, <<>>)
        c4 == SubTokens(c3, {TokCR}, <<CR>>)
    IN  CollapseCRLF(Strip(RemoveChar(RemoveChar(c4, VT), FS)))

\* the fragments between the segment separators
Fragments(raw_text) == Split(Cleaned(raw_text), CR)

\* the fragments with each one that begins with the field separator joined
\* to the end of the one before it
RECURSIVE Merged(_, _)
Merged(frags, done) ==
    IF frags = <<>> THEN done
    ELSE IF done # <<>> /\ frags[1] # <<>> /\ frags[1][1] = PIPE
         THEN Merged(Tail(frags), [done EXCEPT ![Len(done)] = @ \o frags[1]])
         ELSE Merged(Tail(frags), Append(done, frags[1]))

\* the text has a segment separator, and no fragment begins with a line feed
\* (those take the other repairs)
Wrapped(raw_text) ==
    /\ Contains(Cleaned(raw_text), CR)
    /\ \A k \in 1..Len(Fragments(raw_text)) :
         Fragments(raw_text)[k] = <<>> \/ Fragments(raw_text)[k][1] # LF

\* C22: when the text contains the segment separator, a fragment that follows
\* a separator and begins with the field separator is merged back into the
\* fragment before it, so that both are one line of the output, and a
\* fragment that begins otherwise is a line of its own.
C22_LineWrapRepair ==
    (normalized # None /\ Wrapped(input)) =>
        The(normalized) = NonBlank(Merged(Fragments(input), <<>>))

\* what the code does: every non-blank fragment is a line of its own
C22_ButNothingMerged ==
    (normalized # None /\ Wrapped(input)) =>
        The(normalized) = NonBlank(Fragments(input))

\* C23: every string normalize_message returns is non-blank and has no white
\* space at its start or end, whichever path split the text.
C23_TrimmedLines ==
    normalized # None =>
        \A k \in 1..Len(The(normalized)) :
            /\ Strip(The(normalized)[k]) # <<>>
            /\ Strip(The(normalized)[k]) = The(normalized)[k]

\* what holds of the strings returned: none is blank
C23_ButNonBlankOnly ==
    normalized # None =>
        \A k \in 1..Len(The(normalized)) : Strip(The(normalized)[k]) # <<>>

\* C24: no string normalize_message returns holds a framing byte (VT, FS) or
\* a placeholder token for a control byte, in any letter case.
C24_NoFramingSurvives ==
    normalized # None =>
        \A k \in 1..Len(The(normalized)) : ~HasFraming(The(normalized)[k])

\* what holds of the strings returned: none holds a framing byte
C24_ButBytesOnly ==
    normalized # None =>
        \A k \in 1..Len(The(normalized)) :
            \A i \in 1..Len(The(normalized)[k]) : The(normalized)[k][i] \notin {VT, FS}

\* the keys of the report's segment diffs, in order
ReportKeys == [i \in 1..Len(The(report).segment_diffs) |->
                 <<The(report).segment_diffs[i].name, The(report).segment_diffs[i].rep_index>>]

\* the keys of a tree's segments, in document order
DocKeys(parsed) == [i \in 1..Len(parsed.segments) |->
                      <<parsed.segments[i].name, parsed.segments[i].rep_index>>]

\* C25: segment_diffs has exactly one entry for each distinct (code,
\* rep_index) key of A or B: first A's keys in A's document order, then the
\* keys only B has, in B's document order.
C25_SegmentOrder ==
    report # None =>
        LET keys_a == DocKeys(The(left))
            keys_b == DocKeys(The(right))
        IN  /\ ReportKeys = keys_a \o SelectSeq(keys_b, LAMBDA k : ~InSeq(k, keys_a))
            /\ \A i \in 1..Len(ReportKeys) : \A j \in 1..Len(ReportKeys) :
                 ReportKeys[i] = ReportKeys[j] => i = j
            /\ {ReportKeys[i] : i \in 1..Len(ReportKeys)}
                 = {keys_a[i] : i \in 1..Len(keys_a)} \cup {keys_b[i] : i \in 1..Len(keys_b)}

\* a report on trees that share a key, where A has a key of its own and B
\* has one of its own that stands in B before the shared key
C25_Witness ==
    /\ report # None
    /\ LET keys_a == DocKeys(The(left))
           keys_b == DocKeys(The(right))
       IN  /\ \E i \in 1..Len(keys_a) : ~InSeq(keys_a[i], keys_b)
           /\ \E i \in 1..Len(keys_b) : \E j \in 1..Len(keys_b) :
                i < j /\ ~InSeq(keys_b[i], keys_a) /\ InSeq(keys_b[j], keys_a)
           /\ Len(keys_a) >= 3

\* the segments of a tree under a key
SegmentsAt(parsed, key) ==
    {parsed.segments[i] : i \in {k \in 1..Len(parsed.segments) : DocKeys(parsed)[k] = key}}

\* the fields of a segment with a field number
FieldsAt(seg, fnum) ==
    {seg.fields[j] : j \in {k \in 1..Len(seg.fields) : seg.fields[k].field_num = fnum}}

\* the segment diffs of the report whose key both trees hold
SharedDiffs ==
    {i \in 1..Len(The(report).segment_diffs) :
        /\ SegmentsAt(The(left), ReportKeys[i]) # {}
        /\ SegmentsAt(The(right), ReportKeys[i]) # {}}

\* the status the claim gives a field number of a shared segment
ClaimedStatus(seg_a, seg_b, fnum) ==
    IF FieldsAt(seg_b, fnum) = {} THEN "a_only"
    ELSE IF FieldsAt(seg_a, fnum) = {} THEN "b_only"
    ELSE IF The(FieldsAt(seg_a, fnum)).raw_value = The(FieldsAt(seg_b, fnum)).raw_value
    THEN "identical"
    ELSE "modified"

C26_WitnessModifiedFirst ==
    /\ report # None
    /\ \E i \in SharedDiffs :
         LET fds == The(report).segment_diffs[i].field_diffs
         IN  \E k \in 1..Len(fds) : \E m \in 1..Len(fds) :
               k < m /\ fds[k].status = "modified" /\ fds[m].status = "identical"

\* the field diffs of the report, as (segment diff, field diff) positions
AllFieldDiffs ==
    UNION {{<<s, k>> : k \in 1..Len(The(report).segment_diffs[s].field_diffs)} :
             s \in 1..Len(The(report).segment_diffs)}

FieldDiffAt(sk) == The(report).segment_diffs[sk[1]].field_diffs[sk[2]]

\* the field diffs that refer to field j of segment i of a tree on a side:
\* those of the segment diff with that segment's key and that field's number
\* whose field_a (field_b) is that field
ReferringTo(parsed, side, i, j) ==
    {sk \in AllFieldDiffs :
        /\ ReportKeys[sk[1]] = DocKeys(parsed)[i]
        /\ FieldDiffAt(sk).field_num = parsed.segments[i].fields[j].field_num
        /\ (IF side = "a" THEN FieldDiffAt(sk).field_a ELSE FieldDiffAt(sk).field_b)
             = Some(parsed.segments[i].fields[j])}

\* the number of fields of a tree
FieldCount(parsed) ==
    Cardinality(UNION {{<<i, j>> : j \in 1..Len(parsed.segments[i].fields)} :
                         i \in 1..Len(parsed.segments)})

\* C30: in every report on two trees parse_hl7 produced (edited with
\* reparse_field or not), each summary count equals the number of field diffs
\* with that status, total_fields equals the number of field diffs, and every
\* field of A and every field of B is referred to by exactly one field diff
\* (as field_a, as field_b).
C30_SummaryMatches ==
    report # None =>
        LET s == The(report).summary
            With(status) == Cardinality({sk \in AllFieldDiffs : FieldDiffAt(sk).status = status})
        IN  /\ \A status \in {"identical", "modified", "a_only", "b_only"} :
                 s[status] = With(status)
            /\ s.total_fields = Cardinality(AllFieldDiffs)
            /\ \A i \in 1..Len(The(left).segments) :
                 \A j \in 1..Len(The(left).segments[i].fields) :
                     Cardinality(ReferringTo(The(left), "a", i, j)) = 1
            /\ \A i \in 1..Len(The(right).segments) :
                 \A j \in 1..Len(The(right).segments[i].fields) :
                     Cardinality(ReferringTo(The(right), "b", i, j)) = 1
            /\ Cardinality({sk \in AllFieldDiffs : FieldDiffAt(sk).field_a # None})
                 = FieldCount(The(left))
            /\ Cardinality({sk \in AllFieldDiffs : FieldDiffAt(sk).field_b # None})
                 = FieldCount(The(right))

\* a report of several segment diffs with field diffs of all four statuses
C30_Witness ==
    /\ report # None
    /\ Len(The(report).segment_diffs) > 1
    /\ \A status \in {"identical", "modified", "a_only", "b_only"} :
         The(report).summary[status] > 0

\* a report on an edited tree in which a segment code repeats
C30_WitnessEdited ==
    /\ report # None
    /\ The(report).summary.modified > 0
    /\ \E i \in 1..Len(The(left).segments) : The(left).segments[i].rep_index > 1

\* hl7_transform was called with a dict of one entry and applied it
AppliedOne ==
    /\ transformed # None
    /\ Len(changes) = 1
    /\ The(transformed).parsed # None
    /\ The(transformed).errors = <<>>

\* where the loops of hl7_transform find the field an address names
Hit(parsed, address) ==
    LET m == The(AddressMatch(address))
    IN  LocateField(parsed, m.seg_name, m.rep_idx, m.field_num)

\* the line of the segment the one change was applied to parses again to one
\* segment with as many fields, the field changed holding the new text and
\* the others what they held
EditRoundTrips ==
    LET before == The(parse_hl7(message))
        after == The(The(transformed).parsed)
        at == The(Hit(before, changes[1][1]))
        x == changes[1][2]
        old == before.segments[at[1]].fields
        again == parse_hl7(after.segments[at[1]].raw_line)
    IN  /\ again # None
        /\ Len(The(again).segments) = 1
        /\ LET fields == The(again).segments[1].fields
           IN  /\ Len(fields) = Len(old)
               /\ \A k \in 1..Len(old) :
                    fields[k].raw_value = IF k = at[2] THEN x ELSE old[k].raw_value

\* C27: for any field f of a parsed segment and any replacement text x, after
\* reparse_field(f, x) and rebuild_raw_line on the owning segment, parsing the
\* rebuilt line again gives a segment with the same number of fields, in
\* which f has raw_value x and every other field the raw_value it had.
C27_EditRoundTrip == AppliedOne => EditRoundTrips

\* what holds instead: the round trip of a text without the field separator,
\* written to a field of one of the messages of ToolMessages
C27_ButWithoutSeparator ==
    AppliedOne /\ ~Contains(changes[1][2], PIPE) => EditRoundTrips

\* a text without the field separator was written and came back
C27_WitnessWithoutSeparator ==
    AppliedOne /\ changes[1][2] = <<"Z">> /\ EditRoundTrips

\* the field an address names: field field_num of the occurrence rep_idx of
\* the code, of the first occurrence when no index is given; read leniently,
\* an address without index names the field of the first occurrence that has
\* a field field_num
NamedField(parsed, address, lenient) ==
    LET m == The(AddressMatch(address))
        holders ==
            {ij \in UNION {{<<i, j>> : j \in 1..Len(parsed.segments[i].fields)} :
                             i \in 1..Len(parsed.segments)} :
                /\ parsed.segments[ij[1]].name = m.seg_name
                /\ parsed.segments[ij[1]].fields[ij[2]].field_num = m.field_num
                /\ m.rep_idx # None => parsed.segments[ij[1]].rep_index = The(m.rep_idx)
                /\ m.rep_idx = None /\ ~lenient => parsed.segments[ij[1]].rep_index = 1}
    IN  IF holders = {} THEN None
        ELSE Some(CHOOSE ij \in holders :
                    \A other \in holders :
                        parsed.segments[ij[1]].rep_index
                            <= parsed.segments[other[1]].rep_index)

FieldOf(parsed, ij) == parsed.segments[ij[1]].fields[ij[2]]

\* format_field_value read the field the address names
ReadByFormat(lenient) ==
    answer # None /\ The(answer).tool = "format_field_value"
        /\ AddressMatch(The(answer).address) # None =>
        LET parsed == The(parse_hl7(message))
            named == NamedField(parsed, The(answer).address, lenient)
        IN  The(answer).value =
                IF named = None THEN None
                ELSE Some(FieldOf(parsed, The(named)).raw_value)

\* hl7_get_field read the field the address names
ReadByGet(lenient) ==
    answer # None /\ The(answer).tool = "hl7_get_field" /\ parse_hl7(message) # None =>
        LET parsed == The(parse_hl7(message))
            dot_match == DotMatch(The(answer).address)
            base_address == IF dot_match = None THEN The(answer).address
                            ELSE The(dot_match).base_address
            reply == The(answer).reply
        IN  AddressMatch(base_address) # None =>
                LET named == NamedField(parsed, base_address, lenient)
                IN  IF named = None
                    THEN reply.kind = "error" /\ reply.error = "not found in message"
                    ELSE LET fld == FieldOf(parsed, The(named))
                         IN  \/ /\ dot_match = None
                                /\ reply.kind = "field"
                                /\ reply.address = fld.address
                                /\ reply.field_num = fld.field_num
                                /\ reply.value = fld.value
                             \/ /\ dot_match # None
                                /\ reply.kind = "component"
                                /\ reply.value \in
                                     {None, Some(fld.value)}
                                     \cup {Some(fld.components[c].value) :
                                             c \in 1..Len(fld.components)}

\* hl7_transform changed the fields the addresses name, reported the
\* addresses that name none as not found, and changed nothing else
ChangedByTransform(lenient) ==
    transformed # None /\ The(transformed).parsed # None =>
        LET before == The(parse_hl7(message))
            after == The(The(transformed).parsed)
            errors == The(transformed).errors
            valid == {k \in 1..Len(changes) : AddressMatch(changes[k][1]) # None}
            named(k) == NamedField(before, changes[k][1], lenient)
            Reported(k) == \E e \in 1..Len(errors) : errors[e] = NotFound(changes[k][1])
            \* the last change that names the field at ij
            Last(ij) == CHOOSE k \in valid :
                            /\ named(k) = Some(ij)
                            /\ \A k2 \in valid : named(k2) = Some(ij) => k2 <= k
            targets == {ij \in UNION {{<<i, j>> : j \in 1..Len(before.segments[i].fields)} :
                                        i \in 1..Len(before.segments)} :
                           \E k \in valid : named(k) = Some(ij)}
        IN  /\ \A k \in valid : Reported(k) <=> named(k) = None
            /\ Len(after.segments) = Len(before.segments)
            /\ \A i \in 1..Len(before.segments) :
                 /\ Len(after.segments[i].fields) = Len(before.segments[i].fields)
                 /\ \A j \in 1..Len(before.segments[i].fields) :
                      after.segments[i].fields[j] =
                          IF <<i, j>> \in targets
                          THEN reparse_field(before.segments[i].fields[j],
                                             changes[Last(<<i, j>>)][2])
                          ELSE before.segments[i].fields[j]
                 /\ (\A j \in 1..Len(before.segments[i].fields) : <<i, j>> \notin targets)
                      => after.segments[i] = before.segments[i]

\* C28: an address SEG-N without occurrence index refers to field N of the
\* first occurrence of SEG, and SEG[n]-N to field N of the nth occurrence;
\* format_field_value, hl7_get_field and hl7_transform read or modify exactly
\* that field and report it as not found when that occurrence has no field N,
\* never reading or changing a different occurrence.
C28_AddressResolution ==
    ReadByFormat(FALSE) /\ ReadByGet(FALSE) /\ ChangedByTransform(FALSE)

\* what holds instead: an address without occurrence index refers to field N
\* of the first occurrence that has a field N
C28_ButFirstHolder ==
    ReadByFormat(TRUE) /\ ReadByGet(TRUE) /\ ChangedByTransform(TRUE)

\* with an occurrence index, the three tools read and change the field of
\* that occurrence and no other
C28_ButIndexed ==
    /\ (answer # None /\ The(answer).address[4] = "[")
         => ReadByFormat(FALSE) /\ ReadByGet(FALSE)
    /\ (\A k \in 1..Len(changes) : changes[k][1][4] = "[") => ChangedByTransform(FALSE)

\* an address without index was looked up in a message whose first
\* occurrence has no such field while a later one has
C28_WitnessLaterOccurrence ==
    /\ answer # None
    /\ parse_hl7(message) # None
    /\ AddressMatch(The(answer).address) # None
    /\ The(AddressMatch(The(answer).address)).rep_idx = None
    /\ NamedField(The(parse_hl7(message)), The(answer).address, FALSE) = None
    /\ NamedField(The(parse_hl7(message)), The(answer).address, TRUE) # None

\* the tree as parsed and the tree at the return of hl7_transform
Before == The(parse_hl7(message))

After == The(The(transformed).parsed)

\* segment i holds a field that was changed
Touched(i) == After.segments[i].fields # Before.segments[i].fields

\* the entries whose address is valid and names a field (NamedField)
Resolving(lenient) ==
    SelectSeq(changes, LAMBDA c : AddressMatch(c[1]) # None
                                    /\ NamedField(Before, c[1], lenient) # None)

\* the entries whose address the loops of hl7_transform resolve
Resolved ==
    SelectSeq(changes, LAMBDA c : AddressMatch(c[1]) # None /\ Hit(Before, c[1]) # None)

\* every segment in which a field was changed has the line rebuilt from its
\* current fields, every other segment is as parsed, and the entries whose
\* address is invalid or names no field change nothing and are reported
InSync(lenient) ==
    transformed # None /\ The(transformed).parsed # None =>
        LET errors == The(transformed).errors
            result == The(transformed).result
            kept == Resolving(lenient)
        IN  /\ Len(After.segments) = Len(Before.segments)
            /\ \A i \in 1..Len(Before.segments) :
                 IF Touched(i)
                 THEN After.segments[i].raw_line =
                          rebuild_raw_line(After.segments[i].name, After.segments[i].fields)
                 ELSE After.segments[i] = Before.segments[i]
            /\ hl7_transform(message, kept).parsed = Some(After)
            /\ Len(errors) = Len(changes) - Len(kept)
            /\ \A k \in 1..Len(changes) :
                 /\ AddressMatch(changes[k][1]) = None =>
                      \E e \in 1..Len(errors) : errors[e] = InvalidAddress \o changes[k][1]
                 /\ AddressMatch(changes[k][1]) # None
                      /\ NamedField(Before, changes[k][1], lenient) = None =>
                      \E e \in 1..Len(errors) : errors[e] = NotFound(changes[k][1])
            /\ errors # <<>> <=> StartsWith(result, WarningsHead)
            /\ errors # <<>> =>
                 result = WarningsHead \o JoinErrors(errors) \o <<LF>> \o reconstruct_message(After)
            /\ errors = <<>> => result = reconstruct_message(After)

\* C29: after hl7_transform applied any sequence of changes (several may hit
\* the same segment or the same field), every segment in which a field was
\* changed has raw_line = rebuild_raw_line(code, its current fields), every
\* other segment keeps its raw_line and all its fields, and an invalid or
\* unresolved address changes nothing and is reported as a warning.
C29_RawLineInSync == InSync(FALSE)

\* what holds instead: the same, where an address without occurrence index
\* is unresolved only when no occurrence has the field
C29_ButAsResolved == InSync(TRUE)

\* the lines alone: a segment in which a field was changed has the line
\* rebuilt from its current fields, every other segment is as parsed
C29_ButLinesInSync ==
    transformed # None /\ The(transformed).parsed # None =>
        \A i \in 1..Len(Before.segments) :
            IF Touched(i)
            THEN After.segments[i].raw_line =
                     rebuild_raw_line(After.segments[i].name, After.segments[i].fields)
            ELSE After.segments[i] = Before.segments[i]

\* two changes were applied to one segment, and another segment was left alone
C29_Witness ==
    /\ transformed # None /\ The(transformed).parsed # None
    /\ Len(Resolved) = 2
    /\ Hit(Before, Resolved[1][1]) # Hit(Before, Resolved[2][1])
    /\ The(Hit(Before, Resolved[1][1]))[1] = The(Hit(Before, Resolved[2][1]))[1]
    /\ \E i \in 1..Len(Before.segments) : ~Touched(i)

\* two addresses named the same field
C29_WitnessSameField ==
    /\ transformed # None /\ The(transformed).parsed # None
    /\ Len(Resolved) = 2
    /\ Hit(Before, Resolved[1][1]) = Hit(Before, Resolved[2][1])

\* one change was applied and another reported
C29_WitnessWarning ==
    /\ transformed # None /\ The(transformed).parsed # None
    /\ Len(Resolved) = 1
    /\ Len(The(transformed).errors) = 1
    /\ \E i \in 1..Len(Before.segments) : Touched(i)

====
